---------------------------- MODULE Spec2Model ----------------------------
(***************************************************************************)
(* State-machine model of the storage-engine tooling of influxdb:          *)
(*   - the verify-tsm command (cmd/influxd/inspect/verify_tsm),            *)
(*   - the verify-tombstone command (cmd/influxd/inspect/verify_tombstone),*)
(*   - the storage engine core (TSM file set, tombstones, compactor,       *)
(*     write-ahead log and cache) as the specification describes it.       *)
(* Each subsystem has its own specification (SpecTSM, SpecTomb, ...) over  *)
(* its own variables; the variables of the other subsystems stay idle.     *)
(***************************************************************************)
EXTENDS Integers, Sequences, FiniteSets, TLC

(***************************************************************************)
(* Bounds of the model.                                                    *)
(***************************************************************************)
\* the largest number of .tsm files the directory walk finds
MaxFiles == 2
\* the largest number of blocks the block iterator of one file delivers
MaxBlocks == 2
\* the largest number of keys in the index of one file
MaxKeys == 2
\* the number of TSM files one merge takes as its inputs
MaxInputs == 2
\* the largest number of points the inputs of one merge hold together
MaxPoints == 3
\* the largest number of tombstone entries the inputs of one merge have together
MaxTombs == 1
\* the largest generation a TSM file of the shard gets
MaxGen == 3
\* the largest generation a snapshot flush gives a file; the generations above
\* it are left to the outputs of compactions
MaxFlushGen == 2
\* the largest number of tombstone entries appended to the files of the shard
MaxDeletes == 1
\* the largest number of writes the engine is asked for
MaxWrites == 3
\* the largest number of WAL segments on disk
MaxSegs == 3
\* the largest number of tombstone entries appended for one file
MaxAppends == 2
\* the largest number of IDs drawn from the ID generator of the remotes service
MaxCreates == 2
MaxReplications == 2
MaxCallers == 2

(***************************************************************************)
(* The state.                                                              *)
(***************************************************************************)
\* verify-tsm
VARIABLES
    checkUTF8,    \* flag --check-utf8
    verbose,      \* flag --verbose
    tsmPc,        \* position inside RunE / run
    tsmV,         \* the verifier: files, f, totalErrors, total
    readerKeys,   \* the index keys of the reader of tsmV.f (KeyCount / KeyAt)
    blockItr,     \* the block iterator of the reader of tsmV.f
    tsmLoop,      \* the locals of one loop iteration: n, i, count, fileErrors
    tsmDeferred,  \* the closers deferred so far, oldest first
    tsmFds,       \* the operating system's view: open files, Close calls
    tsmOut,       \* what was printed: summary line, diagnostics, healthy files
    tsmErr,       \* the error RunE returned ("running" until it returns)
    tsmSeen       \* what the environment handed out (history of the run)

tsmVars == <<checkUTF8, verbose, tsmPc, tsmV, readerKeys, blockItr, tsmLoop,
             tsmDeferred, tsmFds, tsmOut, tsmErr, tsmSeen>>

\* verify-tombstone
VARIABLES
    verbosity,           \* verifier.verbosity, from the flags -v and --vv
    tombPc,              \* position inside verifier.run
    tombV,               \* the verifier: files, f
    failed,              \* run's local failed
    foundTombstoneFile,  \* run's local foundTombstoneFile
    totalEntries,        \* the loop body's local totalEntries
    walk,                \* the walk in progress: entries left, whether it fails
    tombOut,             \* what was printed
    tombErr,             \* the error RunE returned ("running" until it returns)
    tombSeen             \* what the environment handed out (history of the run)

tombVars == <<verbosity, tombPc, tombV, failed, foundTombstoneFile, totalEntries,
              walk, tombOut, tombErr, tombSeen>>

\* one k-way merge of the compactor, step by step
VARIABLES
    mgPc,       \* "merging" while the merge runs, then "done"
    mgInputs,   \* the input files, each with its tombstone entries
    mgCur,      \* per input, the position of its block iterator
    mgOut,      \* the merged points so far
    mgFile      \* the output file, once written

mergeVars == <<mgPc, mgInputs, mgCur, mgOut, mgFile>>

\* the shard: its TSM files, their tombstones, the compactor and a reader
VARIABLES
    files,      \* per generation, the TSM file under its final name, or NoFile
    tombs,      \* per generation, the tombstone entries of the file
    fileSet,    \* the file-set descriptor: the files that constitute the shard
    nextGen,    \* the generation the next new file gets
    cp,         \* the compactor: state, inputs, merged output
    marked,     \* the superseded files marked for deletion
    rd,         \* a query: the file set it took a reference to at its start
    live,       \* history: the (key, time) pairs written and not tombstoned
    abandoned   \* history: why the latest step abandoned a compaction, if it
                \* did, and what ran during the attempt

shardVars == <<files, tombs, fileSet, nextGen, cp, marked, rd, live, abandoned>>

\* the write path: the WAL, the Cache, the snapshot flush, crash and restart
VARIABLES
    wal,        \* on disk: the WAL segments in order, the last one open
    cache,      \* in memory: the Cache, per (key, time) the value or NoPoint
    snap,       \* in memory: the frozen cache view being flushed and its stage
    indexed,    \* on disk: what the indexed TSM files of the flushes hold
    pending,    \* the write in progress: appended, and whether it is in the
                \* Cache already; it is acknowledged last
    up,         \* whether the process runs, and at which flush stage it crashed
    writes,     \* the number of writes asked for so far
    acked,      \* history: the latest acknowledged value per (key, time)
    shadow      \* history: the Cache had no flush been attempted since the
                \* last completed one

walVars == <<wal, cache, snap, indexed, pending, up, writes, acked, shadow>>

\* the Tombstone Store of one TSM file
VARIABLES
    stFile,     \* the TSM file
    stTombs     \* its tombstone entries, in append order

storeVars == <<stFile, stTombs>>

\* the remotes service: the table of the store, the ID generator, and what the
\* latest call did
VARIABLES
    rmTable,    \* the rows of the table remotes, in insertion order
    rmNextID,   \* the ID the generator gives next
    rmLast      \* the latest call: method, arguments, table before, what was
                \* handed to the validator, result and error

remoteVars == <<rmTable, rmNextID, rmLast>>

VARIABLES
    twA,        \* the remotes table of one store
    twB,        \* the remotes table of a store that differs in the tokens only
    twNextID,   \* the ID the next create draws, in both
    twLast      \* the last call: what it returned and handed the validator, in each

twinVars == <<twA, twB, twNextID, twLast>>

VARIABLES
    rpRows,     \* the rows of the replications table, in insertion order
    rpQueues,   \* the durable queues the queue manager holds: ID and maximum size
    rpNextID,   \* the ID the generator hands out next
    rpLast      \* the last call of the replications service and what it did

replVars == <<rpRows, rpQueues, rpNextID, rpLast>>

VARIABLES
    lkPc,       \* where each caller is in the operation it runs
    lkOp,       \* the operation each caller runs
    lkMu,       \* the holder of the store mutex, if any
    lkReaders,  \* the holders of the bucket service's read lock
    lkWriter,   \* the holder of the bucket service's write lock, if any
    lkBucket,   \* whether the local bucket exists
    lkLast      \* how the last operation that began to return left

lockVars == <<lkPc, lkOp, lkMu, lkReaders, lkWriter, lkBucket, lkLast>>

\* what each subsystem leaves alone
notTsm == <<tombVars, mergeVars, shardVars, walVars, storeVars, remoteVars, twinVars, replVars, lockVars>>
notTomb == <<tsmVars, mergeVars, shardVars, walVars, storeVars, remoteVars, twinVars, replVars, lockVars>>
notMerge == <<tsmVars, tombVars, shardVars, walVars, storeVars, remoteVars, twinVars, replVars, lockVars>>
notShard == <<tsmVars, tombVars, mergeVars, walVars, storeVars, remoteVars, twinVars, replVars, lockVars>>
notWal == <<tsmVars, tombVars, mergeVars, shardVars, storeVars, remoteVars, twinVars, replVars, lockVars>>
notStore == <<tsmVars, tombVars, mergeVars, shardVars, walVars, remoteVars, twinVars, replVars, lockVars>>
notRemote == <<tsmVars, tombVars, mergeVars, shardVars, walVars, storeVars, twinVars, replVars, lockVars>>
notTwin == <<tsmVars, tombVars, mergeVars, shardVars, walVars, storeVars, remoteVars, replVars, lockVars>>
notRepl == <<tsmVars, tombVars, mergeVars, shardVars, walVars, storeVars, remoteVars, twinVars, lockVars>>
notLock == <<tsmVars, tombVars, mergeVars, shardVars, walVars, storeVars, remoteVars, twinVars, replVars>>

(***************************************************************************)
(* Generic helpers.                                                        *)
(***************************************************************************)
RECURSIVE SeqsUpTo(_, _)
\* all sequences over S of length at most n
SeqsUpTo(S, n) ==
    IF n = 0 THEN {<<>>}
    ELSE LET shorter == SeqsUpTo(S, n - 1)
         IN  shorter \cup {Append(s, x) : s \in {t \in shorter : Len(t) = n - 1}, x \in S}

\* the sequence <<1, ..., n>>
Iota(n) == [i \in 1..n |-> i]

\* the elements of a sequence
Range(s) == {s[i] : i \in 1..Len(s)}


(***************************************************************************)
(* hash/crc32: ChecksumIEEE, the reflected CRC-32 with polynomial          *)
(* 0xEDB88320, initial value and final xor 0xFFFFFFFF.  A 32-bit word is   *)
(* held as <<high 16 bits, low 16 bits>>.                                  *)
(***************************************************************************)
RECURSIVE XorBits(_, _, _)
\* bitwise exclusive or of the n low bits of a and b
XorBits(a, b, n) ==
    IF n = 0 THEN 0
    ELSE (((a % 2) + (b % 2)) % 2) + 2 * XorBits(a \div 2, b \div 2, n - 1)

Xor32(x, y) == <<XorBits(x[1], y[1], 16), XorBits(x[2], y[2], 16)>>

\* logical shift right by one bit
Shr32(x) == <<x[1] \div 2, (x[2] \div 2) + (x[1] % 2) * 32768>>

IEEE == <<60856, 33568>>
AllOnes == <<65535, 65535>>

RECURSIVE CrcRounds(_, _)
CrcRounds(c, n) ==
    IF n = 0 THEN c
    ELSE CrcRounds(IF c[2] % 2 = 1 THEN Xor32(Shr32(c), IEEE) ELSE Shr32(c), n - 1)

RECURSIVE CrcUpdate(_, _, _)
\* the running crc after bytes i..Len(buf) of buf
CrcUpdate(c, buf, i) ==
    IF i > Len(buf) THEN c
    ELSE CrcUpdate(CrcRounds(Xor32(c, <<0, buf[i]>>), 8), buf, i + 1)

Crc32(buf) == Xor32(CrcUpdate(AllOnes, buf, 1), AllOnes)

\* the raw block payloads of the model
BufSet == {<<1>>, <<1, 2>>}

\* the checksums of the payloads the model uses, computed once
CrcTable == [b \in BufSet \cup {<<>>} |-> Crc32(b)]

ChecksumIEEE(buf) == CrcTable[buf]

(***************************************************************************)
(* unicode/utf8: Valid reports whether the bytes are entirely valid UTF-8  *)
(* encoded runes (no overlong forms, no surrogates, nothing past U+10FFFF).*)
(***************************************************************************)
IsCont(b) == b >= 128 /\ b <= 191

RECURSIVE Utf8ValidFrom(_, _)
Utf8ValidFrom(p, i) ==
    LET n == Len(p)
        b == p[i]
        \* continuation bytes at i+1..i+k, the first within lo..hi
        Conts(k, lo, hi) ==
            /\ i + k <= n
            /\ p[i + 1] >= lo /\ p[i + 1] <= hi
            /\ \A j \in (i + 2)..(i + k) : IsCont(p[j])
            /\ Utf8ValidFrom(p, i + k + 1)
    IN  IF i > n THEN TRUE
        ELSE IF b < 128 THEN Utf8ValidFrom(p, i + 1)
        ELSE IF b >= 194 /\ b <= 223 THEN Conts(1, 128, 191)
        ELSE IF b = 224 THEN Conts(2, 160, 191)
        ELSE IF b = 237 THEN Conts(2, 128, 159)
        ELSE IF b >= 225 /\ b <= 239 THEN Conts(2, 128, 191)
        ELSE IF b = 240 THEN Conts(3, 144, 191)
        ELSE IF b >= 241 /\ b <= 243 THEN Conts(3, 128, 191)
        ELSE IF b = 244 THEN Conts(3, 128, 143)
        ELSE FALSE

Utf8Valid(p) == Utf8ValidFrom(p, 1)

(***************************************************************************)
(* verify-tsm (cmd/influxd/inspect/verify_tsm/verify_tsm.go).              *)
(*                                                                         *)
(* The directory and the files in it are the environment: loadFiles finds  *)
(* some number of .tsm paths (numbered 1..n), and what a file holds is     *)
(* chosen when the command first looks at it (KeyCount / BlockIterator).   *)
(***************************************************************************)
Paths == 1..MaxFiles
NoPath == 0

\* the checksums the index may hold for the payloads
SumSet == {ChecksumIEEE(b) : b \in BufSet}
\* what blockItr.Read() returns: (checksum, buf, err); a failed read returns
\* zero values and the error
BlockSet == [buf : BufSet, checksum : SumSet, err : {FALSE}]
            \cup {[buf |-> <<>>, checksum |-> <<0, 0>>, err |-> TRUE]}
BlockLists == SeqsUpTo(BlockSet, MaxBlocks)

\* series keys: "a", "e-acute", a stray 0xFF, and a truncated two-byte rune
KeySet == {<<97>>, <<195, 169>>, <<255>>, <<97, 195>>}
KeyLists == SeqsUpTo(KeySet, MaxKeys)

NoSummary == <<>>

\* of the blocks an iterator delivers, how many have a failed read or a stored
\* checksum that differs from the CRC-32 of the raw bytes
NumBroken(blocks) ==
    Cardinality({i \in 1..Len(blocks) :
                    blocks[i].err \/ blocks[i].checksum # ChecksumIEEE(blocks[i].buf)})

\* of the keys of an index, how many are not valid UTF-8
NumInvalid(keys) == Cardinality({i \in 1..Len(keys) : ~Utf8Valid(keys[i])})

TsmInit ==
    /\ checkUTF8 \in BOOLEAN
    /\ verbose \in BOOLEAN
    /\ tsmPc = "start"
    /\ tsmV = [files |-> <<>>, f |-> NoPath, totalErrors |-> 0, total |-> 0]
    /\ readerKeys = <<>>
    /\ blockItr = [blocks |-> <<>>, pos |-> 0]
    /\ tsmLoop = [n |-> 0, i |-> 0, count |-> 0, fileErrors |-> 0]
    /\ tsmDeferred = <<>>
    /\ tsmFds = [open |-> {}, fileClose |-> [p \in Paths |-> 0],
                 readerClose |-> [p \in Paths |-> 0]]
    /\ tsmOut = [summary |-> NoSummary, diag |-> 0, healthy |-> {}]
    /\ tsmErr = "running"
    /\ tsmSeen = [loaded |-> <<>>, visited |-> <<>>, blocks |-> 0, broken |-> 0,
                  keys |-> 0, invalid |-> 0, crc |-> 0, reads |-> 0]

\* the state of the command while it is not run
TsmIdle ==
    /\ checkUTF8 = FALSE
    /\ verbose = FALSE
    /\ tsmPc = "idle"
    /\ tsmV = [files |-> <<>>, f |-> NoPath, totalErrors |-> 0, total |-> 0]
    /\ readerKeys = <<>>
    /\ blockItr = [blocks |-> <<>>, pos |-> 0]
    /\ tsmLoop = [n |-> 0, i |-> 0, count |-> 0, fileErrors |-> 0]
    /\ tsmDeferred = <<>>
    /\ tsmFds = [open |-> {}, fileClose |-> [p \in Paths |-> 0],
                 readerClose |-> [p \in Paths |-> 0]]
    /\ tsmOut = [summary |-> NoSummary, diag |-> 0, healthy |-> {}]
    /\ tsmErr = "running"
    /\ tsmSeen = [loaded |-> <<>>, visited |-> <<>>, blocks |-> 0, broken |-> 0,
                  keys |-> 0, invalid |-> 0, crc |-> 0, reads |-> 0]

\* verifyTSM.next: pop the head of the work list into f
TsmNext(v) == [v EXCEPT !.f = Head(v.files), !.files = Tail(v.files)]

\* a closer that closes the file only when the reader was created
TsmCloseWithReaderOnly(fds, c) ==
    IF c.reader
    THEN [fds EXCEPT !.open = @ \ {c.file},
                     !.fileClose[c.file] = @ + 1,
                     !.readerClose[c.file] = @ + 1]
    ELSE fds

\* the closer tsmReader returns: file.Close(), and reader.Close() when the
\* reader was created
TsmClose(fds, c) ==
    [fds EXCEPT !.open = @ \ {c.file},
                !.fileClose[c.file] = @ + 1,
                !.readerClose[c.file] = IF c.reader THEN @ + 1 ELSE @]

RECURSIVE TsmRunDeferred(_, _)
\* the deferred closers run when run returns, last deferred first
TsmRunDeferred(fds, d) ==
    IF d = <<>> THEN fds
    ELSE TsmRunDeferred(TsmClose(fds, d[Len(d)]), SubSeq(d, 1, Len(d) - 1))

\* run hands err on and goes on with the loop
TsmReturnContinuing(err, fds, d) ==
    /\ tsmErr' = err
    /\ tsmFds' = TsmRunDeferred(fds, d)
    /\ tsmDeferred' = <<>>
    /\ tsmPc' = "loop"

\* run returns err: the deferred calls run and RunE hands err on
TsmReturn(err, fds, d) ==
    /\ tsmErr' = err
    /\ tsmFds' = TsmRunDeferred(fds, d)
    /\ tsmDeferred' = <<>>
    /\ tsmPc' = "done"

\* loadFiles fails (WalkDir reports an error): run returns it at once
TsmLoadFilesFails ==
    /\ tsmPc = "start"
    /\ TsmReturn("loadFiles", tsmFds, tsmDeferred)
    /\ UNCHANGED <<checkUTF8, verbose, tsmV, readerKeys, blockItr, tsmLoop, tsmOut,
                   tsmSeen>>
    /\ UNCHANGED notTsm

\* loadFiles appends every path with the .tsm extension, each once
TsmLoadFiles ==
    /\ tsmPc = "start"
    /\ \E n \in 0..MaxFiles :
          /\ tsmV' = [tsmV EXCEPT !.files = Iota(n)]
          /\ tsmSeen' = [tsmSeen EXCEPT !.loaded = Iota(n)]
    /\ tsmPc' = "loop"
    /\ UNCHANGED <<checkUTF8, verbose, readerKeys, blockItr, tsmLoop, tsmDeferred,
                   tsmFds, tsmOut, tsmErr>>
    /\ UNCHANGED notTsm

\* next() is true and os.OpenFile fails: tsmReader returns (nil, nil, err)
TsmOpenFails ==
    /\ tsmPc = "loop"
    /\ tsmV.files # <<>>
    /\ tsmV' = TsmNext(tsmV)
    /\ tsmSeen' = [tsmSeen EXCEPT !.visited = Append(@, tsmV'.f)]
    /\ TsmReturn("open", tsmFds, tsmDeferred)
    /\ UNCHANGED <<checkUTF8, verbose, readerKeys, blockItr, tsmLoop, tsmOut>>
    /\ UNCHANGED notTsm

\* next() is true, the file opens and tsm1.NewTSMReader fails: the closer
\* (file.Close only) is deferred, then run returns the error
TsmNewReaderFails ==
    /\ tsmPc = "loop"
    /\ tsmV.files # <<>>
    /\ tsmV' = TsmNext(tsmV)
    /\ tsmSeen' = [tsmSeen EXCEPT !.visited = Append(@, tsmV'.f)]
    /\ TsmReturn("reader",
                 [tsmFds EXCEPT !.open = @ \cup {tsmV'.f}],
                 Append(tsmDeferred, [file |-> tsmV'.f, reader |-> FALSE]))
    /\ UNCHANGED <<checkUTF8, verbose, readerKeys, blockItr, tsmLoop, tsmOut>>
    /\ UNCHANGED notTsm

\* verifyUTF8.run, lines 71-82: the reader is created, its closer deferred,
\* n := reader.KeyCount(), v.total += n
TsmReaderUTF8 ==
    /\ tsmPc = "loop"
    /\ checkUTF8
    /\ tsmV.files # <<>>
    /\ \E keys \in KeyLists :
          /\ readerKeys' = keys
          /\ tsmV' = [TsmNext(tsmV) EXCEPT !.total = @ + Len(keys)]
          /\ tsmLoop' = [n |-> Len(keys), i |-> 0, count |-> 0, fileErrors |-> 0]
          /\ tsmSeen' = [tsmSeen EXCEPT !.visited = Append(@, tsmV'.f),
                                        !.keys = @ + Len(keys),
                                        !.invalid = @ + NumInvalid(keys)]
    /\ tsmFds' = [tsmFds EXCEPT !.open = @ \cup {tsmV'.f}]
    /\ tsmDeferred' = Append(tsmDeferred, [file |-> tsmV'.f, reader |-> TRUE])
    /\ tsmPc' = "keys"
    /\ UNCHANGED <<checkUTF8, verbose, blockItr, tsmOut, tsmErr>>
    /\ UNCHANGED notTsm

\* a check that accepts ASCII only: every byte above 127 makes the key invalid
KeyInvalidUnlessASCII(key) == \E i \in 1..Len(key) : key[i] >= 128

\* line 85: the key counts as an error when it is not valid UTF-8
KeyInvalid(key) == ~Utf8Valid(key)

\* verifyUTF8.run, lines 83-92: one pass of the key loop
TsmCheckKey ==
    /\ tsmPc = "keys"
    /\ tsmLoop.i < tsmLoop.n
    /\ LET key == readerKeys[tsmLoop.i + 1]
           bad == KeyInvalid(key)
       IN  /\ tsmV' = [tsmV EXCEPT !.totalErrors = IF bad THEN @ + 1 ELSE @]
           /\ tsmLoop' = [tsmLoop EXCEPT !.i = @ + 1,
                                         !.fileErrors = IF bad THEN @ + 1 ELSE @]
           /\ tsmOut' = [tsmOut EXCEPT !.diag = IF bad /\ verbose THEN @ + 1 ELSE @]
    /\ UNCHANGED <<checkUTF8, verbose, tsmPc, readerKeys, blockItr, tsmDeferred,
                   tsmFds, tsmErr, tsmSeen>>
    /\ UNCHANGED notTsm

\* verifyUTF8.run, lines 93-96: the key loop ends, the file may be healthy
TsmKeysDone ==
    /\ tsmPc = "keys"
    /\ tsmLoop.i >= tsmLoop.n
    /\ tsmOut' = [tsmOut EXCEPT !.healthy =
                     IF tsmLoop.fileErrors = 0 /\ verbose THEN @ \cup {tsmV.f} ELSE @]
    /\ tsmPc' = "loop"
    /\ UNCHANGED <<checkUTF8, verbose, tsmV, readerKeys, blockItr, tsmLoop,
                   tsmDeferred, tsmFds, tsmErr, tsmSeen>>
    /\ UNCHANGED notTsm

\* lines 99-103: what verifyUTF8.run returns after its summary
UTF8Result(v) == IF v.totalErrors > 0 THEN "check-utf8: failed" ELSE "nil"

\* verifyUTF8.run, lines 98-103: next() is false, the summary and the result
TsmSummaryUTF8 ==
    /\ tsmPc = "loop"
    /\ checkUTF8
    /\ tsmV.files = <<>>
    /\ tsmOut' = [tsmOut EXCEPT !.summary =
                     <<"Invalid Keys", tsmV.totalErrors, tsmV.total>>]
    /\ TsmReturn(UTF8Result(tsmV), tsmFds, tsmDeferred)
    /\ UNCHANGED <<checkUTF8, verbose, tsmV, readerKeys, blockItr, tsmLoop, tsmSeen>>
    /\ UNCHANGED notTsm

\* verifyChecksums.run, lines 113-124: the reader is created, its closer
\* deferred, and a block iterator started
TsmReaderChecksums ==
    /\ tsmPc = "loop"
    /\ ~checkUTF8
    /\ tsmV.files # <<>>
    /\ tsmV' = TsmNext(tsmV)
    /\ \E blocks \in BlockLists :
          /\ blockItr' = [blocks |-> blocks, pos |-> 0]
          /\ tsmSeen' = [tsmSeen EXCEPT !.visited = Append(@, tsmV'.f),
                                        !.blocks = @ + Len(blocks),
                                        !.broken = @ + NumBroken(blocks)]
    /\ tsmLoop' = [n |-> 0, i |-> 0, count |-> 0, fileErrors |-> 0]
    /\ tsmFds' = [tsmFds EXCEPT !.open = @ \cup {tsmV'.f}]
    /\ tsmDeferred' = Append(tsmDeferred, [file |-> tsmV'.f, reader |-> TRUE])
    /\ tsmPc' = "blocks"
    /\ UNCHANGED <<checkUTF8, verbose, readerKeys, tsmOut, tsmErr>>
    /\ UNCHANGED notTsm

\* a check that compares the checksums and forgets the read error
BlockBrokenIgnoringErr(blk) == blk.checksum # ChecksumIEEE(blk.buf)

\* lines 128-134: the block counts as broken when its read failed, or else
\* when the stored checksum is not the CRC-32 of its bytes
BlockBroken(blk) ==
    IF blk.err THEN TRUE
    ELSE LET expected == ChecksumIEEE(blk.buf) IN blk.checksum # expected

\* verifyChecksums.run, lines 125-142: blockItr.Next() is true, one block
TsmReadBlock ==
    /\ tsmPc = "blocks"
    /\ blockItr.pos < Len(blockItr.blocks)
    /\ LET blk == blockItr.blocks[blockItr.pos + 1]
           bad == BlockBroken(blk)
       IN  /\ tsmV' = [tsmV EXCEPT !.total = @ + 1,
                                   !.totalErrors = IF bad THEN @ + 1 ELSE @]
           /\ tsmLoop' = [tsmLoop EXCEPT !.count = @ + 1,
                                         !.fileErrors = IF bad THEN @ + 1 ELSE @]
           /\ tsmOut' = [tsmOut EXCEPT !.diag = IF bad /\ verbose THEN @ + 1 ELSE @]
           /\ tsmSeen' = [tsmSeen EXCEPT !.reads = @ + 1,
                                         !.crc = IF blk.err THEN @ ELSE @ + 1]
    /\ blockItr' = [blockItr EXCEPT !.pos = @ + 1]
    /\ UNCHANGED <<checkUTF8, verbose, tsmPc, readerKeys, tsmDeferred, tsmFds, tsmErr>>
    /\ UNCHANGED notTsm

\* verifyChecksums.run, lines 143-146: blockItr.Next() is false
TsmBlocksDone ==
    /\ tsmPc = "blocks"
    /\ blockItr.pos >= Len(blockItr.blocks)
    /\ tsmOut' = [tsmOut EXCEPT !.healthy =
                     IF tsmLoop.fileErrors = 0 /\ verbose THEN @ \cup {tsmV.f} ELSE @]
    /\ tsmPc' = "loop"
    /\ UNCHANGED <<checkUTF8, verbose, tsmV, readerKeys, blockItr, tsmLoop,
                   tsmDeferred, tsmFds, tsmErr, tsmSeen>>
    /\ UNCHANGED notTsm

\* line 150: what verifyChecksums.run returns after its summary
ChecksumsResult(v) == "nil"

\* verifyChecksums.run, lines 148-150: next() is false, the summary and the
\* result
TsmSummaryChecksums ==
    /\ tsmPc = "loop"
    /\ ~checkUTF8
    /\ tsmV.files = <<>>
    /\ tsmOut' = [tsmOut EXCEPT !.summary =
                     <<"Broken Blocks", tsmV.totalErrors, tsmV.total>>]
    /\ TsmReturn(ChecksumsResult(tsmV), tsmFds, tsmDeferred)
    /\ UNCHANGED <<checkUTF8, verbose, tsmV, readerKeys, blockItr, tsmLoop, tsmSeen>>
    /\ UNCHANGED notTsm

TsmStep ==
    \/ TsmLoadFilesFails
    \/ TsmLoadFiles
    \/ TsmOpenFails
    \/ TsmNewReaderFails
    \/ TsmReaderUTF8
    \/ TsmCheckKey
    \/ TsmKeysDone
    \/ TsmSummaryUTF8
    \/ TsmReaderChecksums
    \/ TsmReadBlock
    \/ TsmBlocksDone
    \/ TsmSummaryChecksums

\* the process's exit status is non-zero exactly when RunE returned an error
TsmExitNonZero == tsmErr \notin {"running", "nil"}

(***************************************************************************)
(* verify-tombstone (cmd/influxd/inspect/verify_tombstone).                *)
(*                                                                         *)
(* The tombstone files are the environment: loadFiles finds some number of *)
(* .tombstone paths, and for each file the Tombstoner says whether it has  *)
(* tombstones and, when walked, how many entries it hands to the visitor   *)
(* before it ends or fails.                                                *)
(***************************************************************************)
\* the largest number of entries one tombstone file holds
MaxEntries == 2

\* verbosity levels (const block, iota)
quiet == 0
tombVerbose == 1
veryVerbose == 2

\* a progress line is printed every 10*1e6 entries
ProgressEvery == 10000000

NoReport == <<"none">>

TombBlank(pc) ==
    /\ tombPc = pc
    /\ tombV = [files |-> <<>>, f |-> NoPath]
    /\ failed = FALSE
    /\ foundTombstoneFile = FALSE
    /\ totalEntries = 0
    /\ walk = [left |-> 0, fails |-> FALSE]
    /\ tombOut = [report |-> [p \in Paths |-> NoReport], noFiles |-> FALSE,
                  lines |-> 0]
    /\ tombErr = "running"
    /\ tombSeen = [loaded |-> <<>>, visited |-> <<>>, walked |-> {},
                   failedWalks |-> {}, visits |-> [p \in Paths |-> 0]]

\* NewVerifyTombstoneCommand: --vv gives veryVerbose, -v verbose, else quiet
TombInit ==
    /\ verbosity \in quiet..veryVerbose
    /\ TombBlank("start")

\* the state of the command while it is not run
TombIdle ==
    /\ verbosity = quiet
    /\ TombBlank("idle")

\* verifier.next: pop the head of the work list into f
TombNext(v) == [v EXCEPT !.f = Head(v.files), !.files = Tail(v.files)]

\* line 92-94: "Verifying: ..." is printed when not quiet
TombVerifyingLine == IF verbosity > quiet THEN 1 ELSE 0

\* lines 83-85: loadFiles fails (WalkDir reports an error), run returns it
TombLoadFilesFails ==
    /\ tombPc = "start"
    /\ tombErr' = "loadFiles"
    /\ tombPc' = "done"
    /\ UNCHANGED <<verbosity, tombV, failed, foundTombstoneFile, totalEntries, walk,
                   tombOut, tombSeen>>
    /\ UNCHANGED notTomb

\* lines 61-71, 87-89: loadFiles appends every .tombstone path, each once
TombLoadFiles ==
    /\ tombPc = "start"
    /\ \E n \in 0..MaxFiles :
          /\ tombV' = [tombV EXCEPT !.files = Iota(n)]
          /\ tombSeen' = [tombSeen EXCEPT !.loaded = Iota(n)]
    /\ failed' = FALSE
    /\ foundTombstoneFile' = FALSE
    /\ tombPc' = "loop"
    /\ UNCHANGED <<verbosity, totalEntries, walk, tombOut, tombErr>>
    /\ UNCHANGED notTomb

\* lines 90-100: next() is true and the file has no tombstones: a line is
\* printed and the loop continues
TombNoTombstones ==
    /\ tombPc = "loop"
    /\ tombV.files # <<>>
    /\ tombV' = TombNext(tombV)
    /\ foundTombstoneFile' = TRUE
    /\ tombOut' = [tombOut EXCEPT !.report[tombV'.f] = <<"no entries">>,
                                  !.lines = @ + TombVerifyingLine]
    /\ tombSeen' = [tombSeen EXCEPT !.visited = Append(@, tombV'.f)]
    /\ UNCHANGED <<verbosity, tombPc, failed, totalEntries, walk, tombErr>>
    /\ UNCHANGED notTomb

\* a counter declared before the loop, which keeps counting across files
KeepTotalEntries(previous) == previous

\* line 102: var totalEntries int64, declared inside the loop body
NewTotalEntries(previous) == 0

\* lines 90-103: next() is true and the file has tombstones: the walk starts
TombStartWalk ==
    /\ tombPc = "loop"
    /\ tombV.files # <<>>
    /\ tombV' = TombNext(tombV)
    /\ foundTombstoneFile' = TRUE
    /\ totalEntries' = NewTotalEntries(totalEntries)
    /\ \E n \in 0..MaxEntries, fails \in BOOLEAN :
          walk' = [left |-> n, fails |-> fails]
    /\ tombOut' = [tombOut EXCEPT !.lines = @ + TombVerifyingLine]
    /\ tombSeen' = [tombSeen EXCEPT !.visited = Append(@, tombV'.f),
                                    !.walked = @ \cup {tombV'.f}]
    /\ tombPc' = "walk"
    /\ UNCHANGED <<verbosity, failed, tombErr>>
    /\ UNCHANGED notTomb

\* lines 105-115: what the visitor prints for the entry just counted
VisitorLines(n) ==
    IF verbosity > quiet /\ n % ProgressEvery = 0 THEN 1
    ELSE IF verbosity > tombVerbose THEN 1
    ELSE 0

\* lines 103-117: Walk hands one entry to the visitor, which returns nil
TombVisit ==
    /\ tombPc = "walk"
    /\ walk.left > 0
    /\ walk' = [walk EXCEPT !.left = @ - 1]
    /\ totalEntries' = totalEntries + 1
    /\ tombOut' = [tombOut EXCEPT !.lines = @ + VisitorLines(totalEntries')]
    /\ tombSeen' = [tombSeen EXCEPT !.visits[tombV.f] = @ + 1]
    /\ UNCHANGED <<verbosity, tombPc, tombV, failed, foundTombstoneFile, tombErr>>
    /\ UNCHANGED notTomb

\* lines 118-121: failed after a walk that returned an error
FailedAfterWalkError(before) == TRUE

\* lines 118-122: Walk returns an error: the last okay entry is printed, the
\* failure is recorded and the loop continues
TombWalkFails ==
    /\ tombPc = "walk"
    /\ walk.left = 0
    /\ walk.fails
    /\ tombOut' = [tombOut EXCEPT !.report[tombV.f] = <<"failed", totalEntries>>]
    /\ failed' = FailedAfterWalkError(failed)
    /\ tombSeen' = [tombSeen EXCEPT !.failedWalks = @ \cup {tombV.f}]
    /\ tombPc' = "loop"
    /\ UNCHANGED <<verbosity, tombV, foundTombstoneFile, totalEntries, walk, tombErr>>
    /\ UNCHANGED notTomb

\* failed assigned from the last walk alone (failed = err != nil)
FailedFromLastWalk(before) == FALSE

\* failed after a walk that returned nil: untouched
FailedAfterWalkOk(before) == before

\* line 124: Walk returns nil: the number of verified entries is printed
TombWalkCompletes ==
    /\ tombPc = "walk"
    /\ walk.left = 0
    /\ ~walk.fails
    /\ tombOut' = [tombOut EXCEPT !.report[tombV.f] = <<"verified", totalEntries>>]
    /\ failed' = FailedAfterWalkOk(failed)
    /\ tombPc' = "loop"
    /\ UNCHANGED <<verbosity, tombV, foundTombstoneFile, totalEntries, walk, tombErr,
                   tombSeen>>
    /\ UNCHANGED notTomb

\* a run that also fails when it found no tombstone file
TombResultStrict(f, found) ==
    IF f \/ ~found THEN "failed tombstone verification" ELSE "nil"

\* lines 127-133: what run returns after the loop
TombResult(f, found) == IF f THEN "failed tombstone verification" ELSE "nil"

\* lines 127-133: next() is false: the result, and the note that no tombstone
\* file was found
TombFinish ==
    /\ tombPc = "loop"
    /\ tombV.files = <<>>
    /\ tombErr' = TombResult(failed, foundTombstoneFile)
    /\ tombOut' = [tombOut EXCEPT !.noFiles = ~failed /\ ~foundTombstoneFile]
    /\ tombPc' = "done"
    /\ UNCHANGED <<verbosity, tombV, failed, foundTombstoneFile, totalEntries, walk,
                   tombSeen>>
    /\ UNCHANGED notTomb

TombStep ==
    \/ TombLoadFilesFails
    \/ TombLoadFiles
    \/ TombNoTombstones
    \/ TombStartWalk
    \/ TombVisit
    \/ TombWalkFails
    \/ TombWalkCompletes
    \/ TombFinish

\* the process's exit status is non-zero exactly when RunE returned an error
TombExitNonZero == tombErr \notin {"running", "nil"}

(***************************************************************************)
(* The storage engine core: data model (specification, section 3).         *)
(*                                                                         *)
(* A point is (key, time, value); a TSM file is an immutable sequence of   *)
(* points, keys ascending and times ascending within a key, identified by  *)
(* its generation; a tombstone entry (key, min, max) marks the points of   *)
(* the key in the inclusive range as deleted for the file it belongs to.   *)
(***************************************************************************)
Keys == {"cpu", "mem"}
\* keys are kept in ascending byte order
KeyRank == [k \in Keys |-> IF k = "cpu" THEN 1 ELSE 2]
Times == {1, 2}
Slots == Keys \X Times

NoFile == [gen |-> 0, points |-> <<>>]

\* (key, time) order of the index and of the merge
SlotBefore(k1, t1, k2, t2) ==
    KeyRank[k1] < KeyRank[k2] \/ (k1 = k2 /\ t1 < t2)

RECURSIVE PointsOf(_, _)
\* the file contents for a set of slots: the points in (key, time) order, each
\* carrying the value v
PointsOf(S, v) ==
    IF S = {} THEN <<>>
    ELSE LET first == CHOOSE a \in S :
                          \A b \in S \ {a} : SlotBefore(a[1], a[2], b[1], b[2])
         IN  <<[key |-> first[1], time |-> first[2], value |-> v]>>
             \o PointsOf(S \ {first}, v)

RECURSIVE SeqOf(_)
\* the elements of a set in some fixed order
SeqOf(S) == IF S = {} THEN <<>>
            ELSE LET x == CHOOSE y \in S : TRUE IN <<x>> \o SeqOf(S \ {x})

RECURSIVE SubsetsUpTo(_, _)
\* the subsets of S with at most n elements
SubsetsUpTo(S, n) ==
    IF n = 0 THEN {{}}
    ELSE LET smaller == SubsetsUpTo(S, n - 1)
         IN  smaller \cup {T \cup {x} : T \in smaller, x \in S}

TombRanges == {[key |-> k, min |-> a, max |-> b] : k \in Keys, a \in Times,
                                                  b \in Times}
              \ {r \in [key : Keys, min : Times, max : Times] : r.min > r.max}

\* a predicate whose ranges leave their upper end out
CoveredHalfOpen(ts, k, t) ==
    \E i \in 1..Len(ts) : ts[i].key = k /\ ts[i].min <= t /\ t < ts[i].max

\* Tombstone Store predicate: the point is deleted if its timestamp falls within
\* any tombstone range for its key
Covered(ts, k, t) ==
    \E i \in 1..Len(ts) : ts[i].key = k /\ ts[i].min <= t /\ t <= ts[i].max

\* TSM Reader, read(key, time_range) on one file with its tombstones applied:
\* the points of the key in the range, in ascending time order
ReadFile(file, ts, k, t0, t1) ==
    SelectSeq(file.points,
              LAMBDA p : p.key = k /\ t0 <= p.time /\ p.time <= t1
                         /\ ~Covered(ts, k, p.time))

\* the value a set of files (each with its tombstones) gives for one slot:
\* tombstones applied per file, duplicates resolved in favour of the highest
\* generation; <<>> when no file has a live point there
ReadSlot(inputs, k, t) ==
    LET has == {x \in inputs : ReadFile(x.file, x.tombs, k, t, t) # <<>>}
    IN  IF has = {} THEN <<>>
        ELSE LET newest == CHOOSE x \in has : \A y \in has : y.file.gen <= x.file.gen
             IN  ReadFile(newest.file, newest.tombs, k, t, t)

RECURSIVE ReadTimes(_, _, _, _)
ReadTimes(inputs, k, t, t1) ==
    IF t > t1 THEN <<>>
    ELSE ReadSlot(inputs, k, t) \o ReadTimes(inputs, k, t + 1, t1)

\* a query over a file set: read(key, [t0, t1]) merged across the files
ReadAcross(inputs, k, t0, t1) == ReadTimes(inputs, k, t0, t1)

(***************************************************************************)
(* Compactor, Merging (specification, section 4.6): a k-way merge across   *)
(* the block iterators of the inputs keyed by (series key, time), dropping *)
(* the points covered by the tombstones of the file they come from and     *)
(* keeping, of the points left for one (key, time), the one of the highest *)
(* generation.                                                             *)
(***************************************************************************)
\* the inputs whose iterator has not reached its end
MergeHeads(inputs, cur) == {i \in DOMAIN inputs : cur[i] <= Len(inputs[i].file.points)}

MergeHead(inputs, cur, i) == inputs[i].file.points[cur[i]]

\* the inputs whose next point is at the smallest (key, time) of all heads
MergeGroup(inputs, cur) ==
    LET heads == MergeHeads(inputs, cur)
        H(i) == MergeHead(inputs, cur, i)
        least == CHOOSE i \in heads :
                     \A j \in heads : ~SlotBefore(H(j).key, H(j).time, H(i).key, H(i).time)
    IN  {i \in heads : H(i).key = H(least).key /\ H(i).time = H(least).time}

\* of a group, the inputs whose point is not covered by their own tombstones
MergeSurvivors(inputs, cur, group) ==
    {i \in group : ~Covered(inputs[i].tombs, MergeHead(inputs, cur, i).key,
                            MergeHead(inputs, cur, i).time)}

\* first writer wins: the survivor of the lowest generation
MergeWinnerOldest(inputs, survivors) ==
    CHOOSE i \in survivors : \A j \in survivors : inputs[i].file.gen <= inputs[j].file.gen

\* last writer wins: the survivor of the highest generation
MergeWinner(inputs, survivors) ==
    CHOOSE i \in survivors : \A j \in survivors : inputs[j].file.gen <= inputs[i].file.gen

\* one step of the merge: the output after the smallest (key, time) is settled
MergeEmit(inputs, cur, out) ==
    LET group == MergeGroup(inputs, cur)
        alive == MergeSurvivors(inputs, cur, group)
    IN  IF alive = {} THEN out
        ELSE Append(out, MergeHead(inputs, cur, MergeWinner(inputs, alive)))

\* one step of the merge: every iterator of the group moves on
MergeAdvance(inputs, cur) ==
    LET group == MergeGroup(inputs, cur)
    IN  [i \in DOMAIN inputs |-> IF i \in group THEN cur[i] + 1 ELSE cur[i]]

RECURSIVE MergeAll(_, _, _)
\* the whole merge
MergeAll(inputs, cur, out) ==
    IF MergeHeads(inputs, cur) = {} THEN out
    ELSE MergeAll(inputs, MergeAdvance(inputs, cur), MergeEmit(inputs, cur, out))

\* the inputs a merge may be given: MaxInputs files of generations
\* 1..MaxInputs with at most MaxPoints points and MaxTombs tombstone entries
\* in all; a point carries the generation of its file as its value
MergeGens == 1..MaxInputs
MergeInputSets ==
    {[g \in MergeGens |->
         [file |-> [gen |-> g,
                    points |-> PointsOf({<<x[2], x[3]>> : x \in {y \in P : y[1] = g}}, g)],
          tombs |-> SeqOf({x[2] : x \in {y \in T : y[1] = g}})]] :
     P \in SubsetsUpTo(MergeGens \X Keys \X Times, MaxPoints),
     T \in SubsetsUpTo(MergeGens \X TombRanges, MaxTombs)}

MergeInit ==
    /\ mgPc = "merging"
    /\ mgInputs \in MergeInputSets
    /\ mgCur = [g \in MergeGens |-> 1]
    /\ mgOut = <<>>
    /\ mgFile = NoFile

\* the state while no merge is looked at
MergeIdle ==
    /\ mgPc = "idle"
    /\ mgInputs = <<>>
    /\ mgCur = <<>>
    /\ mgOut = <<>>
    /\ mgFile = NoFile

\* the merge settles the next (key, time)
MgStep ==
    /\ mgPc = "merging"
    /\ MergeHeads(mgInputs, mgCur) # {}
    /\ mgOut' = MergeEmit(mgInputs, mgCur, mgOut)
    /\ mgCur' = MergeAdvance(mgInputs, mgCur)
    /\ UNCHANGED <<mgPc, mgInputs, mgFile>>
    /\ UNCHANGED notMerge

\* every iterator is at its end: the output goes to a new file of a higher
\* generation, which has no tombstones
MgWrite ==
    /\ mgPc = "merging"
    /\ MergeHeads(mgInputs, mgCur) = {}
    /\ mgFile' = [gen |-> MaxInputs + 1, points |-> mgOut]
    /\ mgPc' = "done"
    /\ UNCHANGED <<mgInputs, mgCur, mgOut>>
    /\ UNCHANGED notMerge

MergeStep ==
    \/ MgStep
    \/ MgWrite

(***************************************************************************)
(* The shard (specification, sections 4.4, 4.6 and 5): snapshot flushes    *)
(* add TSM files, deletes append tombstone entries, queries take a         *)
(* reference to the current file set, and the compactor goes               *)
(* Idle -> Planning -> Merging -> Publishing -> Idle.  Flushes, deletes and *)
(* queries go on while a compaction runs, a delete on an input file of the *)
(* compaction included.                                                    *)
(*                                                                         *)
(* From Planning until Publishing begins the compactor's record carries    *)
(* two histories: before, the file set and the input files and their       *)
(* tombstones as Planning found them, and without, the shard as it would   *)
(* be had the compaction not started: the shard at Planning, to which      *)
(* every flush, delete, query and file deletion since is applied on its    *)
(* own.                                                                    *)
(***************************************************************************)
Gens == 1..MaxGen

NoRef == [held |-> FALSE, ref |-> {}, live |-> {}]
CpIdle == [state |-> "Idle", inputs |-> {}, out |-> <<>>, outGen |-> 0,
           before |-> <<>>, without |-> <<>>]
NoAttempt == [why |-> "none", flushed |-> FALSE, deleted |-> FALSE]

\* the compaction has started and Publishing has not begun
BeforePublishing(c) == c.state \in {"Planning", "Merging"}

\* what one snapshot flush may write: one point, or two points one of which
\* an earlier or later flush may write again
FlushSets == {{<<"cpu", 1>>}, {<<"cpu", 1>>, <<"cpu", 2>>}}

\* the range a delete covers: one of the two points
DeleteRanges == {[key |-> "cpu", min |-> 1, max |-> 1]}

\* the files of a view with their tombstones, as a query or a merge reads them;
\* a file that is no longer on disk gives nothing
ViewOf(view, fs, ts) == {[file |-> fs[g], tombs |-> ts[g]] : g \in view}

\* the (key, time) pairs a view has a live point for
LiveSlots(view, fs, ts) ==
    {sl \in Slots : ReadSlot(ViewOf(view, fs, ts), sl[1], sl[2]) # <<>>}

NumTombs(ts) ==
    LET RECURSIVE Sum(_)
        Sum(g) == IF g = 0 THEN 0 ELSE Len(ts[g]) + Sum(g - 1)
    IN  Sum(MaxGen)

ShardBlank ==
    /\ files = [g \in Gens |-> NoFile]
    /\ tombs = [g \in Gens |-> <<>>]
    /\ fileSet = {}
    /\ nextGen = 1
    /\ cp = CpIdle
    /\ marked = {}
    /\ rd = NoRef
    /\ live = {}
    /\ abandoned = NoAttempt

ShardInit == ShardBlank
ShardIdle == ShardBlank

\* a snapshot flush: a new immutable file of the next generation becomes part
\* of the file set
Flush ==
    /\ nextGen <= MaxFlushGen
    /\ \E S \in FlushSets :
          LET f == [gen |-> nextGen, points |-> PointsOf(S, nextGen)]
          IN  /\ files' = [files EXCEPT ![nextGen] = f]
              /\ cp' = IF BeforePublishing(cp)
                          THEN [cp EXCEPT !.without.files[nextGen] = f,
                                          !.without.fileSet = @ \cup {nextGen}]
                          ELSE cp
    /\ fileSet' = fileSet \cup {nextGen}
    /\ nextGen' = nextGen + 1
    /\ live' = LiveSlots(fileSet', files', tombs)
    /\ UNCHANGED <<tombs, marked, rd>>
    /\ abandoned' = NoAttempt
    /\ UNCHANGED notShard

\* Tombstone Store, append(file, key, min, max): one entry is added at the end
\* of the entries of a file of the file set, whatever the compactor does
AppendTombstone ==
    /\ NumTombs(tombs) < MaxDeletes
    /\ \E g \in fileSet, r \in DeleteRanges :
          /\ tombs' = [tombs EXCEPT ![g] = Append(@, r)]
          /\ cp' = IF BeforePublishing(cp)
                      THEN [cp EXCEPT !.without.tombs[g] = Append(@, r)]
                      ELSE cp
    /\ live' = LiveSlots(fileSet, files, tombs')
    /\ rd' = [rd EXCEPT !.live = @ \cap LiveSlots(rd.ref, files, tombs')]
    /\ UNCHANGED <<files, fileSet, nextGen, marked>>
    /\ abandoned' = NoAttempt
    /\ UNCHANGED notShard

\* a query starts: it takes a reference to the current file set, once
BeginQuery ==
    /\ ~rd.held
    /\ rd' = [held |-> TRUE, ref |-> fileSet, live |-> live]
    /\ cp' = IF BeforePublishing(cp)
                THEN [cp EXCEPT !.without.ref = cp.without.fileSet]
                ELSE cp
    /\ UNCHANGED <<files, tombs, fileSet, nextGen, marked, live>>
    /\ abandoned' = NoAttempt
    /\ UNCHANGED notShard

\* the query ends and gives its reference up
EndQuery ==
    /\ rd.held
    /\ rd' = NoRef
    /\ cp' = IF BeforePublishing(cp)
                THEN [cp EXCEPT !.without.ref = {}]
                ELSE cp
    /\ UNCHANGED <<files, tombs, fileSet, nextGen, marked, live>>
    /\ abandoned' = NoAttempt
    /\ UNCHANGED notShard

\* Planning: a set of input files of the file set is selected
CpPlan ==
    /\ cp.state = "Idle"
    /\ \E inputs \in (SUBSET fileSet) \ {{}} :
          cp' = [state |-> "Planning", inputs |-> inputs, out |-> <<>>, outGen |-> 0,
                 before |-> [fileSet |-> fileSet,
                             files |-> [g \in inputs |-> files[g]],
                             tombs |-> [g \in inputs |-> tombs[g]]],
                 without |-> [fileSet |-> fileSet, files |-> files,
                              tombs |-> tombs, marked |-> marked,
                              ref |-> rd.ref]]
    /\ UNCHANGED <<files, tombs, fileSet, nextGen, marked, rd, live>>
    /\ abandoned' = NoAttempt
    /\ UNCHANGED notShard

\* Planning -> Merging
CpStartMerge ==
    /\ cp.state = "Planning"
    /\ cp' = [cp EXCEPT !.state = "Merging"]
    /\ UNCHANGED <<files, tombs, fileSet, nextGen, marked, rd, live>>
    /\ abandoned' = NoAttempt
    /\ UNCHANGED notShard

\* Merging ends well: the merged output is ready, Merging -> Publishing
CpMergeDone ==
    /\ cp.state = "Merging"
    /\ cp' = [cp EXCEPT !.state = "Publishing",
                        !.out = MergeAll([g \in cp.inputs |->
                                             [file |-> files[g], tombs |-> tombs[g]]],
                                         [g \in cp.inputs |-> 1], <<>>),
                        !.before = <<>>,
                        !.without = <<>>]
    /\ UNCHANGED <<files, tombs, fileSet, nextGen, marked, rd, live>>
    /\ abandoned' = NoAttempt
    /\ UNCHANGED notShard

\* the history of an abandoned attempt c: why it was abandoned, and whether
\* since Planning a flush added a file and a delete appended a tombstone to
\* an input
Abandoned(c, why) ==
    [why |-> why,
     flushed |-> fileSet # c.before.fileSet,
     deleted |-> \E g \in c.inputs : tombs[g] # c.before.tombs[g]]

\* an abandon that retires the inputs all the same
FileSetAfterAbandonRetiring(fs, inputs) == fs \ inputs

\* the file set after a compaction attempt was abandoned: the old files remain
\* authoritative
FileSetAfterAbandon(fs, inputs) == fs

\* Merging fails (checksum mismatch, I/O error): the attempt is abandoned
CpMergeFails ==
    /\ cp.state = "Merging"
    /\ cp' = CpIdle
    /\ abandoned' = Abandoned(cp, "merge failed")
    /\ fileSet' = FileSetAfterAbandon(fileSet, cp.inputs)
    /\ UNCHANGED <<files, tombs, nextGen, marked, rd, live>>
    /\ UNCHANGED notShard

\* a cancellation that marks the inputs for deletion
MarkedAfterCancelRetiring(m, inputs) == m \cup inputs

\* the files marked for deletion after a cancellation: the old files are never
\* touched until Publishing
MarkedAfterCancel(m, inputs) == m

\* the compaction is cancelled between Planning and Publishing
CpCancel ==
    /\ cp.state \in {"Planning", "Merging"}
    /\ cp' = CpIdle
    /\ abandoned' = Abandoned(cp, "cancelled")
    /\ fileSet' = FileSetAfterAbandon(fileSet, cp.inputs)
    /\ marked' = MarkedAfterCancel(marked, cp.inputs)
    /\ UNCHANGED <<files, tombs, nextGen, rd, live>>
    /\ UNCHANGED notShard

\* Publishing, first step: the merged output is written (temporary name, then
\* atomic rename) to a new file of a higher generation; it is not yet part of
\* the file set
CpPublishWrite ==
    /\ cp.state = "Publishing"
    /\ cp.outGen = 0
    /\ nextGen <= MaxGen
    /\ files' = [files EXCEPT ![nextGen] = [gen |-> nextGen, points |-> cp.out]]
    /\ cp' = [cp EXCEPT !.outGen = nextGen]
    /\ nextGen' = nextGen + 1
    /\ UNCHANGED <<tombs, fileSet, marked, rd, live>>
    /\ abandoned' = NoAttempt
    /\ UNCHANGED notShard

\* Publishing fails outright: the write of the output fails (IOFailure), the
\* partial temporary file is discarded
CpPublishWriteFails ==
    /\ cp.state = "Publishing"
    /\ cp.outGen = 0
    /\ cp' = CpIdle
    /\ UNCHANGED <<files, tombs, fileSet, nextGen, marked, rd, live>>
    /\ abandoned' = NoAttempt
    /\ UNCHANGED notShard

\* the file set after the swap: the new file visible, the inputs gone
FileSetAfterSwap(fs, inputs, outGen) == (fs \ inputs) \cup {outGen}

\* Publishing, second step: the file set is swapped atomically and the old
\* files and their tombstones are marked for deletion
CpPublishSwap ==
    /\ cp.state = "Publishing"
    /\ cp.outGen # 0
    /\ fileSet' = FileSetAfterSwap(fileSet, cp.inputs, cp.outGen)
    /\ marked' = marked \cup cp.inputs
    /\ cp' = CpIdle
    /\ UNCHANGED <<files, tombs, nextGen, rd, live>>
    /\ abandoned' = NoAttempt
    /\ UNCHANGED notShard

\* a delete that does not wait for the queries
CanDeleteAtOnce(g, query) == TRUE

\* whether the delete of a superseded file can complete now: no query holds a
\* reference to a file set that has the file
CanDelete(g, query) == ~(query.held /\ g \in query.ref)

\* Publishing, cleanup: a superseded input and its tombstones are deleted
CpDeleteSuperseded ==
    /\ \E g \in marked :
          /\ CanDelete(g, rd)
          /\ files' = [files EXCEPT ![g] = NoFile]
          /\ tombs' = [tombs EXCEPT ![g] = <<>>]
          /\ marked' = marked \ {g}
          /\ cp' = IF BeforePublishing(cp)
                      THEN [cp EXCEPT !.without.files[g] = NoFile,
                                      !.without.tombs[g] = <<>>,
                                      !.without.marked = @ \ {g}]
                      ELSE cp
    /\ UNCHANGED <<fileSet, nextGen, rd, live>>
    /\ abandoned' = NoAttempt
    /\ UNCHANGED notShard

ShardStep ==
    \/ Flush
    \/ AppendTombstone
    \/ BeginQuery
    \/ EndQuery
    \/ CpPlan
    \/ CpStartMerge
    \/ CpMergeDone
    \/ CpMergeFails
    \/ CpCancel
    \/ CpPublishWrite
    \/ CpPublishWriteFails
    \/ CpPublishSwap
    \/ CpDeleteSuperseded

(***************************************************************************)
(* The write path (specification, sections 4.5, 5 and 6): a write is       *)
(* durably appended to the WAL, then applied to the Cache, and then        *)
(* acknowledged; a snapshot swaps in a fresh Cache and WAL segment and the *)
(* frozen view is flushed to a TSM file; the closed segments are swept     *)
(* once that file is durably written and indexed.  A crash loses what is   *)
(* in memory, the write in progress with it: its entry stays in the WAL if *)
(* it was appended, and it is never acknowledged.  On restart the unswept  *)
(* segments are replayed into the Cache.                                   *)
(*                                                                         *)
(* The write path and the cache swap exclude each other (section 5), so no *)
(* snapshot is taken between a write's append and its acknowledgment.      *)
(*                                                                         *)
(* The value of a write is the number of its request, so that of two       *)
(* writes to one (key, time) the later one has the greater value.          *)
(***************************************************************************)
WalSlots == {<<"cpu", 1>>, <<"cpu", 2>>}
NoPoint == 0
WalWrites(n) == [slot : WalSlots, val : {n}]
NoWrite == [slot |-> <<"none", 0>>, val |-> NoPoint, applied |-> FALSE]
InProgress(w, applied) == [slot |-> w.slot, val |-> w.val, applied |-> applied]
EmptyCache == [sl \in WalSlots |-> NoPoint]
NoSnap == [stage |-> "none", view |-> EmptyCache, closed |-> 0]
Running == [mode |-> "running", at |-> "none"]

\* the Cache after one write: the point replaces an equal (key, time)
ApplyWrite(c, w) == [c EXCEPT ![w.slot] = w.val]

\* the Cache after the entries of a segment, in append order
RECURSIVE ApplySegment(_, _)
ApplySegment(c, seg) ==
    IF seg = <<>> THEN c ELSE ApplySegment(ApplyWrite(c, Head(seg)), Tail(seg))

\* startup: the unswept segments are replayed into the Cache, oldest first
RECURSIVE Replay(_, _)
Replay(c, segs) ==
    IF segs = <<>> THEN c ELSE Replay(ApplySegment(c, Head(segs)), Tail(segs))

\* the points of the older view with those of the newer view over them
Overlay(older, newer) ==
    [sl \in WalSlots |-> IF newer[sl] # NoPoint THEN newer[sl] ELSE older[sl]]

WalBlank ==
    /\ wal = << <<>> >>
    /\ cache = EmptyCache
    /\ snap = NoSnap
    /\ indexed = EmptyCache
    /\ pending = NoWrite
    /\ up = Running
    /\ writes = 0
    /\ acked = EmptyCache
    /\ shadow = EmptyCache

WalInit == WalBlank
WalIdle == WalBlank

Alive == up.mode # "down"

\* append(entries) -> committed: the batch is durable in the open segment; the
\* write is neither in the Cache nor acknowledged yet
WalAppend ==
    /\ Alive /\ pending = NoWrite /\ writes < MaxWrites
    /\ \E w \in WalWrites(writes + 1) :
          /\ wal' = [wal EXCEPT ![Len(wal)] = Append(@, w)]
          /\ pending' = InProgress(w, FALSE)
          /\ shadow' = ApplyWrite(shadow, w)
    /\ writes' = writes + 1
    /\ up' = Running
    /\ UNCHANGED <<cache, snap, indexed, acked>>
    /\ UNCHANGED notWal

\* a failed append that updates the Cache all the same
CacheAfterFailedAppendApplied(c, w) == ApplyWrite(c, w)

\* the Cache after an append failed: the Cache is updated only after the WAL
\* append succeeds
CacheAfterFailedAppend(c, w) == c

\* the append fails (IOFailure until the write timeout): the write fails
WalAppendFails ==
    /\ Alive /\ pending = NoWrite /\ writes < MaxWrites
    /\ \E w \in WalWrites(writes + 1) : cache' = CacheAfterFailedAppend(cache, w)
    /\ writes' = writes + 1
    /\ up' = Running
    /\ UNCHANGED <<wal, snap, indexed, pending, acked, shadow>>
    /\ UNCHANGED notWal

\* the Cache is updated after the append succeeded
CacheApply ==
    /\ Alive /\ pending # NoWrite /\ ~pending.applied
    /\ cache' = ApplyWrite(cache, pending)
    /\ pending' = [pending EXCEPT !.applied = TRUE]
    /\ up' = Running
    /\ UNCHANGED <<wal, snap, indexed, writes, acked, shadow>>
    /\ UNCHANGED notWal

\* the write is acknowledged: it is durable in the WAL and in the Cache
WalAcknowledge ==
    /\ Alive /\ pending # NoWrite /\ pending.applied
    /\ acked' = ApplyWrite(acked, pending)
    /\ pending' = NoWrite
    /\ up' = Running
    /\ UNCHANGED <<wal, cache, snap, indexed, writes, shadow>>
    /\ UNCHANGED notWal

\* snapshot() -> closed WAL segment + frozen cache view: a fresh empty Cache
\* and WAL segment are swapped in
Snapshot ==
    /\ Alive /\ pending = NoWrite /\ snap.stage = "none"
    /\ cache # EmptyCache
    /\ Len(wal) < MaxSegs
    /\ snap' = [stage |-> "frozen", view |-> cache, closed |-> Len(wal)]
    /\ cache' = EmptyCache
    /\ wal' = Append(wal, <<>>)
    /\ up' = Running
    /\ UNCHANGED <<indexed, pending, writes, acked, shadow>>
    /\ UNCHANGED notWal

\* the flush path writes the frozen view to a new TSM file durably
FlushWrite ==
    /\ Alive /\ snap.stage = "frozen"
    /\ snap' = [snap EXCEPT !.stage = "written"]
    /\ up' = Running
    /\ UNCHANGED <<wal, cache, indexed, pending, writes, acked, shadow>>
    /\ UNCHANGED notWal

\* the new TSM file is indexed: it is part of what the engine reads
FlushIndex ==
    /\ Alive /\ snap.stage = "written"
    /\ indexed' = Overlay(indexed, snap.view)
    /\ snap' = [snap EXCEPT !.stage = "indexed"]
    /\ up' = Running
    /\ UNCHANGED <<wal, cache, pending, writes, acked, shadow>>
    /\ UNCHANGED notWal

\* a sweep that does not wait for the index
MaySweepOnceWritten(stage) == stage \in {"written", "indexed"}

\* whether the closed segments may be removed at this stage of the flush
MaySweep(stage) == stage = "indexed"

\* the flush completes: the closed segments are removed, the frozen view is
\* released
FlushSweep ==
    /\ Alive /\ MaySweep(snap.stage)
    /\ wal' = SubSeq(wal, snap.closed + 1, Len(wal))
    /\ snap' = NoSnap
    /\ shadow' = IF pending = NoWrite THEN cache ELSE ApplyWrite(cache, pending)
    /\ up' = Running
    /\ UNCHANGED <<cache, indexed, pending, writes, acked>>
    /\ UNCHANGED notWal

\* the process is terminated: what is in memory is lost, and so is a TSM file
\* that is not indexed yet
Crash ==
    /\ Alive
    /\ up' = [mode |-> "down", at |-> snap.stage]
    /\ cache' = EmptyCache
    /\ snap' = NoSnap
    /\ pending' = NoWrite
    /\ UNCHANGED <<wal, indexed, writes, acked, shadow>>
    /\ UNCHANGED notWal

\* startup: the unswept WAL segments are replayed into the Cache before the
\* engine accepts new writes
Restart ==
    /\ up.mode = "down"
    /\ cache' = Replay(EmptyCache, wal)
    /\ up' = [up EXCEPT !.mode = "recovered"]
    /\ UNCHANGED <<wal, snap, indexed, pending, writes, acked, shadow>>
    /\ UNCHANGED notWal

\* what a read that starts now observes: the indexed TSM files, the frozen view
\* being flushed and the Cache, the newer over the older
ReadView == Overlay(Overlay(indexed, snap.view), cache)

WalStep ==
    \/ WalAppend
    \/ WalAppendFails
    \/ CacheApply
    \/ WalAcknowledge
    \/ Snapshot
    \/ FlushWrite
    \/ FlushIndex
    \/ FlushSweep
    \/ Crash
    \/ Restart

(***************************************************************************)
(* The Tombstone Store of one file (specification, section 4.4): entries   *)
(* are appended, never reordered or rewritten, and a read of the file has  *)
(* them applied.                                                           *)
(***************************************************************************)
StoreFiles == {[gen |-> 1, points |-> PointsOf(S, 1)] : S \in SUBSET Slots}

StoreInit ==
    /\ stFile \in StoreFiles
    /\ stTombs = <<>>

StoreIdle ==
    /\ stFile = NoFile
    /\ stTombs = <<>>

\* append(file, key, min_time, max_time): one entry is added after the others
StAppend ==
    /\ Len(stTombs) < MaxAppends
    /\ \E r \in TombRanges : stTombs' = Append(stTombs, r)
    /\ UNCHANGED stFile
    /\ UNCHANGED notStore

StoreStep == StAppend

(***************************************************************************)
(* remotes/service.go: the remote-connection service over the table        *)
(* remotes of the SQL store.  A call is one step: writes hold store.Mu,    *)
(* and every method runs one SQL statement.  The store may refuse a        *)
(* statement (a constraint of the table, a cancelled context); the service *)
(* then returns the store's error.                                         *)
(***************************************************************************)
initID == 1
RmIDs == initID..(initID + MaxCreates - 1)
RmOrgs == {10, 1000}
Nil == <<>>
Some(x) == <<x>>

createReq ==
    [OrgID |-> 10, Name |-> "test", Description |-> Some("testing testing"),
     RemoteURL |-> "https://influxdb.cloud", RemoteToken |-> "abcdefghijklmnop",
     RemoteOrgID |-> 20, AllowInsecureTLS |-> TRUE]
createReq2 ==
    [createReq EXCEPT !.Name = "test2", !.RemoteURL = "https://other.influxdb"]
createReqOtherOrg ==
    [createReq EXCEPT !.OrgID = 1000, !.Description = Nil,
                      !.RemoteToken = "qrstuvwxyz", !.AllowInsecureTLS = FALSE]
CreateRequests == {createReq, createReq2, createReqOtherOrg}

noUpdate ==
    [Name |-> Nil, Description |-> Nil, RemoteURL |-> Nil, RemoteToken |-> Nil,
     RemoteOrgID |-> Nil, AllowInsecureTLS |-> Nil]
updateReq ==
    [noUpdate EXCEPT !.RemoteToken = Some("qrstuvwxyz"),
                     !.AllowInsecureTLS = Some(FALSE)]
updateReqAll ==
    [updateReq EXCEPT !.Name = Some("test2"), !.Description = Some("renamed"),
                      !.RemoteURL = Some("https://other.influxdb"),
                      !.RemoteOrgID = Some(21)]
UpdateRequests == {noUpdate, updateReq, updateReqAll}

\* the validator's answers: no error, or an error with a message
ValidatorAnswers == {"nil", "O NO"}

\* errRemoteNotFound, and the EInvalid error that wraps a validator error
NoError == [Code |-> "", Msg |-> "", Err |-> "nil"]
errRemoteNotFound == [Code |-> "not found", Msg |-> "remote connection not found",
                      Err |-> "nil"]
StoreError == [Code |-> "", Msg |-> "", Err |-> "store"]
InvalidError(msg, err) == [Code |-> "invalid", Msg |-> msg, Err |-> err]

\* the row with the given id, as the one-element or empty list of its positions
RowsWithID(table, id) == {i \in 1..Len(table) : table[i].id = id}

\* the columns with the token among them
ConnectionOfWithToken(row) ==
    [ID |-> row.id, OrgID |-> row.org_id, Name |-> row.name,
     Description |-> row.description, RemoteURL |-> row.remote_url,
     RemoteOrgID |-> row.remote_org_id, AllowInsecureTLS |-> row.allow_insecure_tls,
     RemoteToken |-> row.remote_api_token]

\* RETURNING / SELECT id, org_id, name, description, remote_url, remote_org_id,
\* allow_insecure_tls: the columns without the token
ConnectionOf(row) ==
    [ID |-> row.id, OrgID |-> row.org_id, Name |-> row.name,
     Description |-> row.description, RemoteURL |-> row.remote_url,
     RemoteOrgID |-> row.remote_org_id, AllowInsecureTLS |-> row.allow_insecure_tls]

\* SELECT remote_url, remote_api_token, remote_org_id, allow_insecure_tls
ConfigOfWithoutToken(row) ==
    [RemoteURL |-> row.remote_url, RemoteToken |-> "",
     RemoteOrgID |-> row.remote_org_id, AllowInsecureTLS |-> row.allow_insecure_tls]
ConfigOf(row) ==
    [RemoteURL |-> row.remote_url, RemoteToken |-> row.remote_api_token,
     RemoteOrgID |-> row.remote_org_id, AllowInsecureTLS |-> row.allow_insecure_tls]

\* INSERT INTO remotes: the row of a create request
RowOfWithoutDescription(id, request) ==
    [id |-> id, org_id |-> request.OrgID, name |-> request.Name,
     description |-> Nil, remote_url |-> request.RemoteURL,
     remote_api_token |-> request.RemoteToken,
     remote_org_id |-> request.RemoteOrgID,
     allow_insecure_tls |-> request.AllowInsecureTLS]
RowOf(id, request) ==
    [id |-> id, org_id |-> request.OrgID, name |-> request.Name,
     description |-> request.Description, remote_url |-> request.RemoteURL,
     remote_api_token |-> request.RemoteToken,
     remote_org_id |-> request.RemoteOrgID,
     allow_insecure_tls |-> request.AllowInsecureTLS]

\* the value of a column after an update: the one of the request if it is set
Updated(old, field) == IF field = Nil THEN old ELSE field[1]

\* UPDATE remotes SET ...: the columns the request has are set
UpdatedRowKeepingName(row, request) ==
    [row EXCEPT !.allow_insecure_tls = Updated(@, request.AllowInsecureTLS),
                !.remote_org_id = Updated(@, request.RemoteOrgID),
                !.remote_url = Updated(@, request.RemoteURL),
                !.remote_api_token = Updated(@, request.RemoteToken),
                !.description = IF request.Description = Nil THEN @
                                 ELSE request.Description]
UpdatedRow(row, request) ==
    [row EXCEPT !.allow_insecure_tls = Updated(@, request.AllowInsecureTLS),
                !.remote_org_id = Updated(@, request.RemoteOrgID),
                !.remote_url = Updated(@, request.RemoteURL),
                !.remote_api_token = Updated(@, request.RemoteToken),
                !.name = Updated(@, request.Name),
                !.description = IF request.Description = Nil THEN @
                                 ELSE request.Description]

\* ValidateUpdatedRemoteConnection: the stored configuration with the fields of
\* the request over it
UpdatedConfigKeepingToken(config, request) ==
    [config EXCEPT !.AllowInsecureTLS = Updated(@, request.AllowInsecureTLS),
                   !.RemoteOrgID = Updated(@, request.RemoteOrgID),
                   !.RemoteURL = Updated(@, request.RemoteURL)]
UpdatedConfig(config, request) ==
    [config EXCEPT !.AllowInsecureTLS = Updated(@, request.AllowInsecureTLS),
                   !.RemoteOrgID = Updated(@, request.RemoteOrgID),
                   !.RemoteToken = Updated(@, request.RemoteToken),
                   !.RemoteURL = Updated(@, request.RemoteURL)]

\* ValidateNewRemoteConnection: the configuration of a create request
NewConfig(request) ==
    [RemoteURL |-> request.RemoteURL, RemoteToken |-> request.RemoteToken,
     RemoteOrgID |-> request.RemoteOrgID,
     AllowInsecureTLS |-> request.AllowInsecureTLS]

\* the error a method returns for the validator's answer
ValidationError(msg, answer) ==
    IF answer = "nil" THEN NoError ELSE InvalidError(msg, answer)

\* the list filters: the org, and optionally a name and a remote URL
ListFilters ==
    {[OrgID |-> 10, Name |-> Nil, RemoteURL |-> Nil],
     [OrgID |-> 10, Name |-> Some("test2"), RemoteURL |-> Nil],
     [OrgID |-> 10, Name |-> Nil, RemoteURL |-> Some("https://other.influxdb")],
     [OrgID |-> 1000, Name |-> Nil, RemoteURL |-> Nil]}

\* WHERE org_id = ? [AND name = ?] [AND remote_url = ?]
Matches(row, filter) ==
    /\ row.org_id = filter.OrgID
    /\ filter.Name # Nil => row.name = filter.Name[1]
    /\ filter.RemoteURL # Nil => row.remote_url = filter.RemoteURL[1]

\* the sequences with the elements of a sequence, each once, in any order
Reorderings(seq) ==
    {[i \in 1..Len(seq) |-> seq[f[i]]] :
        f \in {g \in [1..Len(seq) -> 1..Len(seq)] :
                  \A a, b \in 1..Len(seq) : a # b => g[a] # g[b]}}

\* the sequence of the connections of the rows
ConnectionsOf(rows) == [i \in 1..Len(rows) |-> ConnectionOf(rows[i])]

\* what a SELECT without ORDER BY may return for the filter: the rows that
\* match, in an order the store chooses
Selected(table, filter) ==
    Reorderings(SelectSeq(table, LAMBDA row : Matches(row, filter)))

NoCall == [op |-> "none", arg |-> Nil, before |-> <<>>, calls |-> <<>>,
           said |-> <<>>, svc |-> <<>>, out |-> Nil, err |-> NoError]

RemoteBlank ==
    /\ rmTable = <<>>
    /\ rmNextID = initID
    /\ rmLast = NoCall

RemoteInit == RemoteBlank
RemoteIdle == RemoteBlank

\* the record of a call of a service method
Called(op, arg, calls, out, err) ==
    [op |-> op, arg |-> arg, before |-> rmTable, calls |-> calls, said |-> <<>>,
     svc |-> <<>>, out |-> out, err |-> err]

\* the record of a call that handed the validator a configuration and got its
\* answer: the error of the call is the validator's, wrapped
Validated(op, arg, config, msg, answer) ==
    [Called(op, arg, <<config>>, Nil, ValidationError(msg, answer))
     EXCEPT !.said = <<answer>>]

ListRemoteConnections ==
    /\ \E filter \in ListFilters, storeOk \in BOOLEAN :
          IF storeOk
          THEN \E rows \in Selected(rmTable, filter) :
                  rmLast' = Called("List", <<filter>>, <<>>,
                                   Some(ConnectionsOf(rows)), NoError)
          ELSE rmLast' = Called("List", <<filter>>, <<>>, Nil, StoreError)
    /\ UNCHANGED <<rmTable, rmNextID>>
    /\ UNCHANGED notRemote

\* the table and the result of CreateRemoteConnection with the ID drawn
Created(table, id, request, storeOk) ==
    IF storeOk
    THEN [table |-> Append(table, RowOf(id, request)),
          out |-> Some(ConnectionOf(RowOf(id, request))), err |-> NoError]
    ELSE [table |-> table, out |-> Nil, err |-> StoreError]

CreateRemoteConnection ==
    /\ rmNextID \in RmIDs
    /\ \E request \in CreateRequests, storeOk \in BOOLEAN :
          LET r == Created(rmTable, rmNextID, request, storeOk)
          IN  /\ rmTable' = r.table
              /\ rmLast' = Called("Create", <<request>>, <<>>, r.out, r.err)
    /\ rmNextID' = rmNextID + 1
    /\ UNCHANGED notRemote

ValidateNewRemoteConnection ==
    /\ \E request \in CreateRequests, answer \in ValidatorAnswers :
          rmLast' = Validated("ValidateNew", <<request>>, NewConfig(request),
                              "remote parameters fail validation", answer)
    /\ UNCHANGED <<rmTable, rmNextID>>
    /\ UNCHANGED notRemote

\* the result of a SELECT of one row by id: the store's error, no rows, or
\* the row
LookupSilent(table, id, storeOk) ==
    IF ~storeOk THEN [err |-> StoreError, row |-> Nil]
    ELSE IF RowsWithID(table, id) = {} THEN [err |-> NoError, row |-> Nil]
    ELSE [err |-> NoError, row |-> Some(table[CHOOSE i \in RowsWithID(table, id) : TRUE])]
Lookup(table, id, storeOk) ==
    IF ~storeOk THEN [err |-> StoreError, row |-> Nil]
    ELSE IF RowsWithID(table, id) = {} THEN [err |-> errRemoteNotFound, row |-> Nil]
    ELSE [err |-> NoError, row |-> Some(table[CHOOSE i \in RowsWithID(table, id) : TRUE])]

GetRemoteConnection ==
    /\ \E id \in RmIDs, storeOk \in BOOLEAN :
          LET l == Lookup(rmTable, id, storeOk)
          IN  rmLast' = Called("Get", <<id>>, <<>>,
                               IF l.row = Nil THEN Nil ELSE Some(ConnectionOf(l.row[1])),
                               l.err)
    /\ UNCHANGED <<rmTable, rmNextID>>
    /\ UNCHANGED notRemote

\* the table with the row at a position replaced, and with it removed
WithRow(table, i, row) == [table EXCEPT ![i] = row]
WithoutRow(table, i) == SelectSeq([j \in 1..Len(table) |-> <<j, table[j]>>],
                                  LAMBDA e : e[1] # i)

\* the rows of a sequence of <<position, row>> pairs
RowsOf(pairs) == [j \in 1..Len(pairs) |-> pairs[j][2]]

\* the position of the row with the id, which is there
IndexOf(table, id) == CHOOSE i \in RowsWithID(table, id) : TRUE

UpdateRemoteConnection ==
    /\ \E id \in RmIDs, request \in UpdateRequests, storeOk \in BOOLEAN :
          LET l == Lookup(rmTable, id, storeOk)
          IN  IF l.row = Nil
              THEN /\ rmTable' = rmTable
                   /\ rmLast' = Called("Update", <<id, request>>, <<>>, Nil, l.err)
              ELSE LET row == UpdatedRow(l.row[1], request)
                   IN  /\ rmTable' = WithRow(rmTable, IndexOf(rmTable, id), row)
                       /\ rmLast' = Called("Update", <<id, request>>, <<>>,
                                           Some(ConnectionOf(row)), NoError)
    /\ UNCHANGED rmNextID
    /\ UNCHANGED notRemote

ValidateUpdatedRemoteConnection ==
    /\ \E id \in RmIDs, request \in UpdateRequests, storeOk \in BOOLEAN :
          LET l == Lookup(rmTable, id, storeOk)
          IN  IF l.row = Nil
              THEN rmLast' = Called("ValidateUpdated", <<id, request>>, <<>>, Nil, l.err)
              ELSE \E answer \in ValidatorAnswers :
                   rmLast' = Validated("ValidateUpdated", <<id, request>>,
                                       UpdatedConfig(ConfigOf(l.row[1]), request),
                                       "validation fails after applying update",
                                       answer)
    /\ UNCHANGED <<rmTable, rmNextID>>
    /\ UNCHANGED notRemote

DeleteRemoteConnection ==
    /\ \E id \in RmIDs, storeOk \in BOOLEAN :
          LET l == Lookup(rmTable, id, storeOk)
          IN  /\ rmTable' = IF l.row = Nil THEN rmTable
                            ELSE RowsOf(WithoutRow(rmTable, IndexOf(rmTable, id)))
              /\ rmLast' = Called("Delete", <<id>>, <<>>, Nil, l.err)
    /\ UNCHANGED rmNextID
    /\ UNCHANGED notRemote

ValidateRemoteConnection ==
    /\ \E id \in RmIDs, storeOk \in BOOLEAN :
          LET l == Lookup(rmTable, id, storeOk)
          IN  IF l.row = Nil
              THEN rmLast' = Called("Validate", <<id>>, <<>>, Nil, l.err)
              ELSE \E answer \in ValidatorAnswers :
                   rmLast' = Validated("Validate", <<id>>, ConfigOf(l.row[1]),
                                       "remote failed validation", answer)
    /\ UNCHANGED <<rmTable, rmNextID>>
    /\ UNCHANGED notRemote

\* the values of the validate query parameter, and the statuses of a response
ValidateParams == {"", "true"}
StatusCreated == 201
StatusNoContent == 204

\* validate := q.Get("validate") == "true"
IsValidateNever(validate) == FALSE
IsValidate(validate) == validate = "true"

\* handlePostRemote: the body is decoded; with validate=true the request is
\* validated, else the connection is created
handlePostRemote ==
    /\ \E validate \in ValidateParams,
          body \in {Nil} \cup {Some(request) : request \in CreateRequests} :
          IF body = Nil
          THEN /\ rmLast' = Called("POST", <<validate, body>>, <<>>, Nil,
                                   InvalidError("decode", "nil"))
               /\ UNCHANGED <<rmTable, rmNextID>>
          ELSE LET request == body[1] IN
               IF IsValidate(validate)
          THEN /\ \E answer \in ValidatorAnswers :
                     LET err == ValidationError("remote parameters fail validation",
                                                answer)
                     IN  rmLast' = [Called("POST", <<validate, body>>,
                                           <<NewConfig(request)>>,
                                           IF err = NoError THEN Some(StatusNoContent)
                                           ELSE Nil, err)
                                    EXCEPT !.svc = <<"ValidateNewRemoteConnection">>,
                                           !.said = <<answer>>]
               /\ UNCHANGED <<rmTable, rmNextID>>
          ELSE /\ rmNextID \in RmIDs
               /\ \E storeOk \in BOOLEAN :
                     LET r == Created(rmTable, rmNextID, request, storeOk)
                     IN  /\ rmTable' = r.table
                         /\ rmLast' = [Called("POST", <<validate, body>>, <<>>,
                                              IF r.err = NoError
                                              THEN Some(StatusCreated) ELSE Nil, r.err)
                                       EXCEPT !.svc = <<"CreateRemoteConnection">>]
               /\ rmNextID' = rmNextID + 1
    /\ UNCHANGED notRemote

RemoteStep ==
    \/ ListRemoteConnections
    \/ CreateRemoteConnection
    \/ ValidateNewRemoteConnection
    \/ GetRemoteConnection
    \/ UpdateRemoteConnection
    \/ ValidateUpdatedRemoteConnection
    \/ DeleteRemoteConnection
    \/ ValidateRemoteConnection
    \/ handlePostRemote

(***************************************************************************)
(* The router of the remotes handler: the middleware mwRemotesFlag before  *)
(* every route, and the route handlers with the service behind them.       *)
(***************************************************************************)

StatusOK == 200
StatusNotFound == 404

errBadOrg == [Code |-> "invalid", Msg |-> "invalid or missing org ID", Err |-> "nil"]
errBadId == [Code |-> "invalid", Msg |-> "remote-connection ID is invalid",
             Err |-> "nil"]
DecodeError == InvalidError("decode", "nil")

\* flags[key]: the value and whether the key is there
FlagLookups ==
    {[ok |-> FALSE, val |-> FALSE], [ok |-> TRUE, val |-> FALSE],
     [ok |-> TRUE, val |-> TRUE]}

\* a gate that lets a flag that is there pass, whatever its value
FlagRejectsIfAbsent(flag) == ~flag.ok

\* !ok || !flagVal.(bool)
FlagRejects(flag) == ~flag.ok \/ ~flag.val

\* the routes, and the handler the router has for each
Routes == {"GET /", "POST /", "GET /{id}", "PATCH /{id}", "DELETE /{id}",
           "POST /{id}/validate"}
HandlerOf(route) ==
    CASE route = "GET /" -> "handleGetRemotes"
      [] route = "POST /" -> "handlePostRemote"
      [] route = "GET /{id}" -> "handleGetRemote"
      [] route = "PATCH /{id}" -> "handlePatchRemote"
      [] route = "DELETE /{id}" -> "handleDeleteRemote"
      [] route = "POST /{id}/validate" -> "handleValidateRemote"

\* the requests: the route, whether the org ID or the ID parses, the ID, the
\* validate parameter, whether the body decodes, and the body
Request(route) ==
    [route |-> route, parses |-> TRUE, id |-> initID, validate |-> "",
     decodes |-> TRUE, create |-> createReq, update |-> updateReq]
Requests ==
    UNION {{Request(route), [Request(route) EXCEPT !.parses = FALSE]} :
              route \in Routes \ {"POST /"}}
    \cup {[Request("POST /") EXCEPT !.decodes = FALSE],
          [Request("PATCH /{id}") EXCEPT !.decodes = FALSE]}
    \cup {[Request("POST /") EXCEPT !.validate = v, !.create = c] :
              v \in ValidateParams, c \in {createReq, createReq2}}
    \cup {[Request("PATCH /{id}") EXCEPT !.validate = "true"]}

\* what a handler did: the service methods it called, the configurations the
\* validator got, the table and the next ID after it, and the response
Reply(svc, calls, table, nextID, out, err) ==
    [svc |-> svc, calls |-> calls, table |-> table, nextID |-> nextID,
     out |-> out, err |-> err]

\* the response to the error or the success of a service call
Responded(svc, calls, table, nextID, status, err) ==
    Reply(svc, calls, table, nextID, IF err = NoError THEN Some(status) ELSE Nil, err)

\* the replies of a validation: one per answer of the validator
Answered(svc, config, table, nextID, msg) ==
    {Responded(svc, <<config>>, table, nextID, StatusNoContent,
               ValidationError(msg, answer)) : answer \in ValidatorAnswers}

\* the replies the handler of a route may give
Handled(table, nextID, req) ==
    LET none == <<>>
        bad(err) == {Reply(none, <<>>, table, nextID, Nil, err)}
        rows(storeOk) == Lookup(table, req.id, storeOk)
        byID(svc, found(_)) ==
            UNION {IF rows(storeOk).row = Nil
                   THEN {Reply(<<svc>>, <<>>, table, nextID, Nil, rows(storeOk).err)}
                   ELSE found(rows(storeOk).row[1]) : storeOk \in BOOLEAN}
    IN  CASE req.route = "GET /" ->
                IF ~req.parses THEN bad(errBadOrg)
                ELSE {Responded(<<"ListRemoteConnections">>, <<>>, table, nextID,
                                StatusOK, err) : err \in {NoError, StoreError}}
          [] req.route = "POST /" ->
                IF ~req.decodes THEN bad(DecodeError)
                ELSE IF IsValidate(req.validate)
                THEN Answered("ValidateNewRemoteConnection", NewConfig(req.create),
                              table, nextID, "remote parameters fail validation")
                ELSE {Responded(<<"CreateRemoteConnection">>, <<>>,
                                Created(table, nextID, req.create, storeOk).table,
                                nextID + 1, StatusCreated,
                                Created(table, nextID, req.create, storeOk).err) :
                         storeOk \in BOOLEAN}
          [] req.route = "GET /{id}" ->
                IF ~req.parses THEN bad(errBadId)
                ELSE byID("GetRemoteConnection",
                          LAMBDA row : {Responded(<<"GetRemoteConnection">>, <<>>, table,
                                                  nextID, StatusOK, NoError)})
          [] req.route = "PATCH /{id}" ->
                IF ~req.parses THEN bad(errBadId)
                ELSE IF ~req.decodes THEN bad(DecodeError)
                ELSE IF IsValidate(req.validate)
                THEN byID("ValidateUpdatedRemoteConnection",
                          LAMBDA row :
                             Answered("ValidateUpdatedRemoteConnection",
                                      UpdatedConfig(ConfigOf(row), req.update), table,
                                      nextID, "validation fails after applying update"))
                ELSE byID("UpdateRemoteConnection",
                          LAMBDA row :
                             {Responded(<<"UpdateRemoteConnection">>, <<>>,
                                        WithRow(table, IndexOf(table, req.id),
                                                UpdatedRow(row, req.update)),
                                        nextID, StatusOK, NoError)})
          [] req.route = "DELETE /{id}" ->
                IF ~req.parses THEN bad(errBadId)
                ELSE byID("DeleteRemoteConnection",
                          LAMBDA row :
                             {Responded(<<"DeleteRemoteConnection">>, <<>>,
                                        RowsOf(WithoutRow(table, IndexOf(table, req.id))),
                                        nextID, StatusNoContent, NoError)})
          [] req.route = "POST /{id}/validate" ->
                IF ~req.parses THEN bad(errBadId)
                ELSE byID("ValidateRemoteConnection",
                          LAMBDA row :
                             Answered("ValidateRemoteConnection", ConfigOf(row), table,
                                      nextID, "remote failed validation"))

\* the record of a request the router served
Served(flag, req, handler, reply) ==
    [op |-> "HTTP", arg |-> <<flag, req>>, before |-> rmTable, calls |-> reply.calls,
     said |-> <<>>, svc |-> reply.svc, out |-> reply.out, err |-> reply.err,
     handler |-> handler]

\* mwRemotesFlag with the flag absent or false: 404, and next is not called
mwRemotesFlagRejects ==
    /\ \E flag \in FlagLookups, req \in Requests :
          /\ FlagRejects(flag)
          /\ rmLast' = Served(flag, req, "none",
                              Reply(<<>>, <<>>, rmTable, rmNextID,
                                    Some(StatusNotFound), NoError))
    /\ UNCHANGED <<rmTable, rmNextID>>
    /\ UNCHANGED notRemote

\* mwRemotesFlag with the flag true: next.ServeHTTP, the handler of the route
mwRemotesFlagPasses ==
    /\ \E flag \in FlagLookups, req \in Requests :
          /\ ~FlagRejects(flag)
          /\ req.route = "POST /" /\ req.decodes /\ ~IsValidate(req.validate)
                => rmNextID \in RmIDs
          /\ \E reply \in Handled(rmTable, rmNextID, req) :
                /\ rmLast' = Served(flag, req, HandlerOf(req.route), reply)
                /\ rmTable' = reply.table
                /\ rmNextID' = reply.nextID
    /\ UNCHANGED notRemote

RouterStep ==
    \/ mwRemotesFlagRejects
    \/ mwRemotesFlagPasses

(***************************************************************************)
(* Two remotes stores side by side: the same calls reach both, with the    *)
(* same answers of the store; a call to the second carries any token in    *)
(* place of the token of the call to the first.                            *)
(***************************************************************************)

Tokens == {"abcdefghijklmnop", "qrstuvwxyz"}

\* the create and update requests with each token in place of theirs
WithToken(request, token) == [request EXCEPT !.RemoteToken = token]
TwinCreates == {createReq, createReq2}
TwinUpdates == {noUpdate, updateReq}
TokenOf(request, token) ==
    IF request.RemoteToken = Nil THEN request ELSE WithToken(request, Some(token))

NoTwinCall == [op |-> "none", arg |-> Nil, a |-> Nil, b |-> Nil,
               errA |-> NoError, errB |-> NoError, callsA |-> <<>>, callsB |-> <<>>]

TwinInit ==
    /\ twA = <<>>
    /\ twB = <<>>
    /\ twNextID = initID
    /\ twLast = NoTwinCall

TwinIdle == TwinInit

TwinCalled(op, arg, a, b, errA, errB) ==
    [op |-> op, arg |-> arg, a |-> a, b |-> b, errA |-> errA, errB |-> errB,
     callsA |-> <<>>, callsB |-> <<>>]

\* the result of GetRemoteConnection on a table
Got(table, id, storeOk) ==
    LET l == Lookup(table, id, storeOk)
    IN  [out |-> IF l.row = Nil THEN Nil ELSE Some(ConnectionOf(l.row[1])),
         err |-> l.err]

\* the table and the result of UpdateRemoteConnection on a table
UpdatedTable(table, id, request, storeOk) ==
    LET l == Lookup(table, id, storeOk)
    IN  IF l.row = Nil THEN [table |-> table, out |-> Nil, err |-> l.err]
        ELSE [table |-> WithRow(table, IndexOf(table, id), UpdatedRow(l.row[1], request)),
              out |-> Some(ConnectionOf(UpdatedRow(l.row[1], request))),
              err |-> NoError]

\* ValidateRemoteConnection on a table: the error of the lookup, or the
\* configuration handed to the validator and the validator's answer, wrapped
ValidatedOn(table, id, storeOk, answer) ==
    LET l == Lookup(table, id, storeOk)
    IN  IF l.row = Nil THEN [calls |-> <<>>, err |-> l.err]
        ELSE [calls |-> <<ConfigOf(l.row[1])>>,
              err |-> ValidationError("remote failed validation", answer)]

TwinCreate ==
    /\ twNextID \in RmIDs
    /\ \E request \in TwinCreates, tb \in Tokens, storeOk \in BOOLEAN :
          LET ra == Created(twA, twNextID, request, storeOk)
              rb == Created(twB, twNextID, WithToken(request, tb), storeOk)
          IN  /\ twA' = ra.table
              /\ twB' = rb.table
              /\ twLast' = TwinCalled("Create", <<request>>, ra.out, rb.out,
                                      ra.err, rb.err)
    /\ twNextID' = twNextID + 1
    /\ UNCHANGED notTwin

TwinGet ==
    /\ \E id \in RmIDs, storeOk \in BOOLEAN :
          LET ra == Got(twA, id, storeOk)
              rb == Got(twB, id, storeOk)
          IN  twLast' = TwinCalled("Get", <<id>>, ra.out, rb.out, ra.err, rb.err)
    /\ UNCHANGED <<twA, twB, twNextID>>
    /\ UNCHANGED notTwin

TwinUpdate ==
    /\ \E id \in RmIDs, request \in TwinUpdates, tb \in Tokens, storeOk \in BOOLEAN :
          LET ra == UpdatedTable(twA, id, request, storeOk)
              rb == UpdatedTable(twB, id, TokenOf(request, tb), storeOk)
          IN  /\ twA' = ra.table
              /\ twB' = rb.table
              /\ twLast' = TwinCalled("Update", <<id, request>>, ra.out, rb.out,
                                      ra.err, rb.err)
    /\ UNCHANGED twNextID
    /\ UNCHANGED notTwin

\* the rows of a table at the positions a filter selects in it
MatchingPositions(table, filter) ==
    SelectSeq([i \in 1..Len(table) |-> i], LAMBDA i : Matches(table[i], filter))

\* the store's choice of an order is one of positions, the same in both: the
\* query does not name the token
TwinList ==
    /\ \E filter \in ListFilters, storeOk \in BOOLEAN :
          IF ~storeOk
          THEN twLast' = TwinCalled("List", <<filter>>, Nil, Nil, StoreError, StoreError)
          ELSE \E order \in Reorderings(MatchingPositions(twA, filter)) :
                  twLast' =
                     TwinCalled("List", <<filter>>,
                        Some([i \in 1..Len(order) |-> ConnectionOf(twA[order[i]])]),
                        Some([i \in 1..Len(order) |-> ConnectionOf(twB[order[i]])]),
                        NoError, NoError)
    /\ UNCHANGED <<twA, twB, twNextID>>
    /\ UNCHANGED notTwin

\* each store's validator is handed that store's configuration and answers
\* for itself; an answer nobody asks for is not chosen
TwinValidate ==
    /\ \E id \in RmIDs, storeOk \in BOOLEAN,
          answerA \in ValidatorAnswers, answerB \in ValidatorAnswers :
          LET va == ValidatedOn(twA, id, storeOk, answerA)
              vb == ValidatedOn(twB, id, storeOk, answerB)
          IN  /\ va.calls = <<>> => answerA = "nil"
              /\ vb.calls = <<>> => answerB = "nil"
              /\ twLast' = [TwinCalled("Validate", <<id>>, Nil, Nil, va.err, vb.err)
                            EXCEPT !.callsA = va.calls, !.callsB = vb.calls]
    /\ UNCHANGED <<twA, twB, twNextID>>
    /\ UNCHANGED notTwin

TwinStep ==
    \/ TwinCreate
    \/ TwinGet
    \/ TwinUpdate
    \/ TwinList
    \/ TwinValidate

(***************************************************************************)
(* The replications service: the replications table and the durable queue  *)
(* manager behind CreateReplication, UpdateReplication, DeleteReplication  *)
(* and DeleteBucketReplications.  The bucket service, the store and the    *)
(* queue manager answer as they choose.                                    *)
(***************************************************************************)

RpIDs == initID..(initID + MaxReplications - 1)

\* the IDs a caller asks about: those handed out, and one that never was
AskedIDs(nextID) == initID..nextID

\* the IDs that go wrong in one call: none, or one of them
AtMostOne(ids) == {{}} \cup {{id} : id \in ids}

\* an answer nobody asks for is not chosen
Unasked(asked, answer) == asked \/ answer

\* the remote connections the remotes table holds, which remote_id refers to
KnownRemotes == {initID}
LocalBuckets == {"bucket1", "bucket2"}

replCreate ==
    [OrgID |-> 10, Name |-> "repl", Description |-> "", RemoteID |-> initID,
     LocalBucketID |-> "bucket1",
     RemoteBucketID |-> "remote1", MaxQueueSizeBytes |-> 10]
ReplCreates ==
    {replCreate,
     [replCreate EXCEPT !.LocalBucketID = "bucket2"],
     [replCreate EXCEPT !.RemoteID = initID + 1]}

replNoUpdate ==
    [Name |-> Nil, Description |-> Nil, RemoteID |-> Nil, RemoteBucketID |-> Nil,
     MaxQueueSizeBytes |-> Nil]
ReplUpdates ==
    {replNoUpdate,
     [replNoUpdate EXCEPT !.RemoteID = Some(initID + 1)],
     [replNoUpdate EXCEPT !.Name = Some("renamed"),
                          !.Description = Some("described"),
                          !.RemoteBucketID = Some("remote2"),
                          !.MaxQueueSizeBytes = Some(20)]}

errReplicationNotFound == [Code |-> "not found", Msg |-> "replication not found",
                           Err |-> "nil"]
errLocalBucketNotFound(id, cause) ==
    [Code |-> "invalid", Msg |-> "local bucket not found", Err |-> cause, ID |-> id]
errRemoteNotFoundFor(id, cause) ==
    [Code |-> "invalid", Msg |-> "remote not found", Err |-> cause, ID |-> id]
QueueError(call) == [Code |-> "", Msg |-> "", Err |-> call]

\* INSERT INTO replications: the row of a create request
ReplRowOf(id, request) ==
    [id |-> id, org_id |-> request.OrgID, name |-> request.Name,
     description |-> request.Description, remote_id |-> request.RemoteID,
     local_bucket_id |-> request.LocalBucketID,
     remote_bucket_id |-> request.RemoteBucketID,
     max_queue_size_bytes |-> request.MaxQueueSizeBytes]

\* an UPDATE that leaves max_queue_size_bytes as it is
ReplUpdatedRowKeepingMax(row, request) ==
    [row EXCEPT !.name = Updated(@, request.Name),
                !.description = Updated(@, request.Description),
                !.remote_id = Updated(@, request.RemoteID),
                !.remote_bucket_id = Updated(@, request.RemoteBucketID)]

\* UPDATE replications SET ...: the columns the request has are set
ReplUpdatedRow(row, request) ==
    [row EXCEPT !.name = Updated(@, request.Name),
                !.description = Updated(@, request.Description),
                !.remote_id = Updated(@, request.RemoteID),
                !.remote_bucket_id = Updated(@, request.RemoteBucketID),
                !.max_queue_size_bytes = Updated(@, request.MaxQueueSizeBytes)]

\* the queue manager: a queue is there or not, and has a maximum size
QueueIDs(queues) == {q.id : q \in queues}
InitializeQueue(queues, id, max) == queues \cup {[id |-> id, max |-> max]}
\* a DeleteQueue that leaves the queue where it is
DeleteQueueKeeping(queues, id) == queues
DeleteQueue(queues, id) == {q \in queues : q.id # id}
UpdateMaxQueueSize(queues, id, max) ==
    {IF q.id = id THEN [q EXCEPT !.max = max] ELSE q : q \in queues}

\* one call of the queue manager: the method, the ID, and whether it succeeded
QueueCall(method, id, ok) == [method |-> method, id |-> id, ok |-> ok]

NoReplCall == [op |-> "none", arg |-> Nil, rows |-> <<>>, queues |-> {},
               qcalls |-> <<>>, out |-> Nil, err |-> NoError, panic |-> FALSE]

ReplInit ==
    /\ rpRows = <<>>
    /\ rpQueues = {}
    /\ rpNextID = initID
    /\ rpLast = NoReplCall

ReplIdle == ReplInit

\* the record of a call: its arguments, the rows and queues before it, the
\* calls of the queue manager it made, and what it returned
ReplCalled(op, arg, qcalls, out, err) ==
    [op |-> op, arg |-> arg, rows |-> rpRows, queues |-> rpQueues, qcalls |-> qcalls,
     out |-> out, err |-> err, panic |-> FALSE]

ReplIDsOf(rows) == {rows[i].id : i \in DOMAIN rows}
ReplRow(rows, id) == rows[CHOOSE i \in DOMAIN rows : rows[i].id = id]
\* a DELETE that deletes nothing
ReplWithoutNothing(rows, ids) == rows
ReplWithout(rows, ids) == SelectSeq(rows, LAMBDA row : row.id \notin ids)
ReplWith(rows, id, row) == [i \in DOMAIN rows |-> IF rows[i].id = id THEN row ELSE rows[i]]

\* CreateReplication: the bucket is looked up, the queue initialized under a
\* new ID, the row inserted; a failing insert deletes the queue again
CreateReplication ==
    \E request \in ReplCreates, found \in BOOLEAN, initOk \in BOOLEAN,
       storeOk \in BOOLEAN, deleteOk \in BOOLEAN :
        LET newID == rpNextID
            row == ReplRowOf(newID, request)
            init == QueueCall("InitializeQueue", newID, initOk)
            cleanup == QueueCall("DeleteQueue", newID, deleteOk)
            initialized == InitializeQueue(rpQueues, newID, request.MaxQueueSizeBytes)
            cleaned == IF deleteOk THEN DeleteQueue(initialized, newID) ELSE initialized
        IN  /\ Unasked(found, initOk)
            /\ Unasked(found /\ initOk, storeOk)
            /\ Unasked(found /\ initOk
                            /\ ~(storeOk /\ request.RemoteID \in KnownRemotes), deleteOk)
            /\ IF ~found
               THEN /\ rpLast' = ReplCalled("CreateReplication", request, <<>>, Nil,
                                     errLocalBucketNotFound(request.LocalBucketID, "bucket"))
                    /\ UNCHANGED <<rpRows, rpQueues, rpNextID>>
                    /\ UNCHANGED notRepl
               ELSE /\ rpNextID \in RpIDs
                    /\ rpNextID' = rpNextID + 1
                    /\ IF ~initOk
                       THEN /\ rpLast' = ReplCalled("CreateReplication", request, <<init>>,
                                             Nil, QueueError("InitializeQueue"))
                            /\ UNCHANGED <<rpRows, rpQueues>>
                       ELSE IF ~storeOk
                       THEN /\ rpQueues' = cleaned
                            /\ rpLast' = ReplCalled("CreateReplication", request,
                                             <<init, cleanup>>, Nil, StoreError)
                            /\ UNCHANGED rpRows
                       ELSE IF request.RemoteID \notin KnownRemotes
                       THEN /\ rpQueues' = cleaned
                            /\ rpLast' = ReplCalled("CreateReplication", request,
                                             <<init, cleanup>>, Nil,
                                             errRemoteNotFoundFor(request.RemoteID,
                                                                  "foreign key"))
                            /\ UNCHANGED rpRows
                       ELSE /\ rpRows' = Append(rpRows, row)
                            /\ rpQueues' = initialized
                            /\ rpLast' = ReplCalled("CreateReplication", request, <<init>>,
                                             Some(row), NoError)
                    /\ UNCHANGED notRepl

\* GetReplication: the row, with the current size of its queue
GetReplication ==
    \E id \in AskedIDs(rpNextID), storeOk \in BOOLEAN, sizesOk \in BOOLEAN :
        LET sizes == QueueCall("CurrentQueueSizes", id, sizesOk)
        IN  /\ Unasked(storeOk /\ id \in ReplIDsOf(rpRows), sizesOk)
            /\ rpLast' =
                IF ~storeOk
                THEN ReplCalled("GetReplication", id, <<>>, Nil, StoreError)
                ELSE IF id \notin ReplIDsOf(rpRows)
                THEN ReplCalled("GetReplication", id, <<>>, Nil, errReplicationNotFound)
                ELSE IF ~sizesOk
                THEN ReplCalled("GetReplication", id, <<sizes>>, Nil,
                                QueueError("CurrentQueueSizes"))
                ELSE ReplCalled("GetReplication", id, <<sizes>>,
                                Some(ReplRow(rpRows, id)), NoError)
            /\ UNCHANGED <<rpRows, rpQueues, rpNextID>>
            /\ UNCHANGED notRepl

\* UpdateReplication: the row is written, then the queue resized if the
\* request has a maximum size, then the current size read
UpdateReplication ==
    \E id \in AskedIDs(rpNextID), request \in ReplUpdates, storeOk \in BOOLEAN,
       resizeOk \in BOOLEAN, sizesOk \in BOOLEAN :
        LET resizes == request.MaxQueueSizeBytes # Nil
            resize == QueueCall("UpdateMaxQueueSize", id, resizeOk)
            sizes == QueueCall("CurrentQueueSizes", id, sizesOk)
            before == IF resizes THEN <<resize>> ELSE <<>>
            written == /\ storeOk
                       /\ id \in ReplIDsOf(rpRows)
                       /\ ~(request.RemoteID # Nil
                              /\ request.RemoteID[1] \notin KnownRemotes)
        IN  /\ Unasked(written /\ resizes, resizeOk)
            /\ Unasked(written /\ resizeOk, sizesOk)
            /\ IF ~storeOk
               THEN /\ rpLast' = ReplCalled("UpdateReplication", <<id, request>>, <<>>,
                                     Nil, StoreError)
                    /\ UNCHANGED <<rpRows, rpQueues, rpNextID>>
                    /\ UNCHANGED notRepl
               ELSE IF id \notin ReplIDsOf(rpRows)
               THEN /\ rpLast' = ReplCalled("UpdateReplication", <<id, request>>, <<>>,
                                     Nil, errReplicationNotFound)
                    /\ UNCHANGED <<rpRows, rpQueues, rpNextID>>
                    /\ UNCHANGED notRepl
               ELSE IF request.RemoteID # Nil /\ request.RemoteID[1] \notin KnownRemotes
               THEN /\ rpLast' = ReplCalled("UpdateReplication", <<id, request>>, <<>>,
                                     Nil, errRemoteNotFoundFor(request.RemoteID[1],
                                                               "foreign key"))
                    /\ UNCHANGED <<rpRows, rpQueues, rpNextID>>
                    /\ UNCHANGED notRepl
               ELSE LET row == ReplUpdatedRow(ReplRow(rpRows, id), request)
                    IN  /\ rpRows' = ReplWith(rpRows, id, row)
                        /\ IF resizes /\ ~resizeOk
                           THEN /\ rpLast' = ReplCalled("UpdateReplication",
                                                 <<id, request>>, <<resize>>, Nil,
                                                 QueueError("UpdateMaxQueueSize"))
                                /\ UNCHANGED rpQueues
                           ELSE /\ rpQueues' =
                                       IF resizes
                                       THEN UpdateMaxQueueSize(rpQueues, id,
                                                               request.MaxQueueSizeBytes[1])
                                       ELSE rpQueues
                                /\ rpLast' =
                                       IF sizesOk
                                       THEN ReplCalled("UpdateReplication",
                                                <<id, request>>, before \o <<sizes>>,
                                                Some(row), NoError)
                                       ELSE ReplCalled("UpdateReplication",
                                                <<id, request>>, before \o <<sizes>>,
                                                Nil, QueueError("CurrentQueueSizes"))
                        /\ UNCHANGED rpNextID
                        /\ UNCHANGED notRepl

\* DeleteReplication: the row is deleted, then its queue
DeleteReplication ==
    \E id \in AskedIDs(rpNextID), storeOk \in BOOLEAN, deleteOk \in BOOLEAN :
        LET delete == QueueCall("DeleteQueue", id, deleteOk)
        IN  /\ Unasked(storeOk /\ id \in ReplIDsOf(rpRows), deleteOk)
            /\ IF ~storeOk
               THEN /\ rpLast' = ReplCalled("DeleteReplication", id, <<>>, Nil, StoreError)
                    /\ UNCHANGED <<rpRows, rpQueues, rpNextID>>
                    /\ UNCHANGED notRepl
               ELSE IF id \notin ReplIDsOf(rpRows)
               THEN /\ rpLast' = ReplCalled("DeleteReplication", id, <<>>, Nil,
                                     errReplicationNotFound)
                    /\ UNCHANGED <<rpRows, rpQueues, rpNextID>>
                    /\ UNCHANGED notRepl
               ELSE /\ rpRows' = ReplWithout(rpRows, {id})
                    /\ rpQueues' = IF deleteOk THEN DeleteQueue(rpQueues, id) ELSE rpQueues
                    /\ rpLast' = ReplCalled("DeleteReplication", id, <<delete>>, Nil,
                                     IF deleteOk THEN NoError ELSE QueueError("DeleteQueue"))
                    /\ UNCHANGED rpNextID
                    /\ UNCHANGED notRepl

\* an ID as the string the DELETE returns it, which parses or does not
IDString(id, parses) == [ID |-> id, parses |-> parses]

\* platform.IDFromString: the ID and no error, or no ID and an error
IDFromString(str) ==
    IF str.parses THEN [id |-> Some(str.ID), err |-> "nil"]
    ELSE [id |-> Nil, err |-> "invalid ID"]

\* the loop of DeleteBucketReplications over the deleted ID strings, from the
\* i-th: a string that does not parse is logged and errOccurred set, and the
\* loop goes on to DeleteQueue(*id) with the nil ID, which panics
RECURSIVE DeleteQueuesFrom(_, _, _, _)
DeleteQueuesFrom(i, run, deleted, failing) ==
    IF i > Len(deleted) THEN run
    ELSE LET parsed == IDFromString(deleted[i])
             errOccurred == run.errOccurred \/ parsed.err # "nil"
         IN  IF parsed.id = Nil
             THEN [run EXCEPT !.errOccurred = errOccurred, !.panic = TRUE]
             ELSE LET id == parsed.id[1]
                      ok == id \notin failing
                  IN  DeleteQueuesFrom(i + 1,
                          [queues |-> IF ok THEN DeleteQueue(run.queues, id)
                                      ELSE run.queues,
                           qcalls |-> Append(run.qcalls,
                                             QueueCall("DeleteQueue", id, ok)),
                           errOccurred |-> errOccurred \/ ~ok,
                           panic |-> FALSE],
                          deleted, failing)

\* DeleteBucketReplications: the rows of the bucket are deleted in one
\* statement, which returns their IDs as strings in an order of its choosing;
\* then the queue of each is deleted.  A panic returns nothing.
DeleteBucketReplications ==
    \E localBucketID \in LocalBuckets, storeOk \in BOOLEAN :
        IF ~storeOk
        THEN /\ rpLast' = ReplCalled("DeleteBucketReplications", localBucketID, <<>>,
                              Nil, StoreError)
             /\ UNCHANGED <<rpRows, rpQueues, rpNextID>>
             /\ UNCHANGED notRepl
        ELSE LET matching == SelectSeq(rpRows,
                                 LAMBDA row : row.local_bucket_id = localBucketID)
                 ids == [i \in DOMAIN matching |-> matching[i].id]
             IN  \E order \in Reorderings(ids),
                    unparsable \in AtMostOne(ReplIDsOf(matching)),
                    failing \in AtMostOne(ReplIDsOf(matching)) :
                     LET deleted == [i \in DOMAIN order |->
                                        IDString(order[i], order[i] \notin unparsable)]
                         run == DeleteQueuesFrom(1,
                                    [queues |-> rpQueues, qcalls |-> <<>>,
                                     errOccurred |-> FALSE, panic |-> FALSE],
                                    deleted, failing)
                     IN  /\ failing \cap unparsable = {}
                         /\ rpRows' = ReplWithout(rpRows, ReplIDsOf(matching))
                         /\ rpQueues' = run.queues
                         /\ rpLast' =
                                [ReplCalled("DeleteBucketReplications", localBucketID,
                                     run.qcalls, Some(deleted),
                                     IF run.errOccurred /\ ~run.panic
                                     THEN QueueError("DeleteBucketReplications")
                                     ELSE NoError)
                                 EXCEPT !.panic = run.panic]
                         /\ UNCHANGED rpNextID
                         /\ UNCHANGED notRepl

ReplStep ==
    \/ CreateReplication
    \/ GetReplication
    \/ UpdateReplication
    \/ DeleteReplication
    \/ DeleteBucketReplications

(***************************************************************************)
(* The store mutex and the bucket service's lock: callers run the          *)
(* operations of the remotes and replications services concurrently, one   *)
(* step at a time.                                                         *)
(***************************************************************************)

Callers == 1..MaxCallers
NoCaller == 0

\* the operations whose first statements are Mu.Lock and defer Mu.Unlock
MutexOps ==
    {"CreateRemoteConnection", "UpdateRemoteConnection", "DeleteRemoteConnection",
     "UpdateReplication", "DeleteReplication", "DeleteBucketReplications"}

\* the operations that take no lock
LockFreeOps ==
    {"ListRemoteConnections", "GetRemoteConnection", "ValidateNewRemoteConnection",
     "ValidateUpdatedRemoteConnection", "ValidateRemoteConnection",
     "ListReplications", "GetReplication", "ValidateNewReplication",
     "ValidateUpdatedReplication", "ValidateReplication"}

LockOps == MutexOps \cup LockFreeOps \cup {"CreateReplication", "DeleteBucket"}

\* the ways out of an operation: a result, an error, a panic
Exits == {"return", "error", "panic"}

\* where an operation starts
FirstStep(op) ==
    IF op = "CreateReplication" THEN "RLock"
    ELSE IF op \in MutexOps THEN "Lock"
    ELSE IF op = "DeleteBucket" THEN "WLock"
    ELSE "statement"

\* a mutex that a panic leaves locked
MuAfterReturnButPanic(holder, caller, exit) ==
    IF holder = caller /\ exit # "panic" THEN NoCaller ELSE holder

\* defer s.store.Mu.Unlock(): the holder's return, whatever the exit, unlocks
MuAfterReturn(holder, caller, exit) ==
    IF holder = caller THEN NoCaller ELSE holder

\* a read lock granted whatever the writer does
CanRLockAlways(writer, pcs) == TRUE

\* RLock is granted when no writer holds the lock and none waits for it
CanRLock(writer, pcs) ==
    /\ writer = NoCaller
    /\ \A p \in Callers : pcs[p] # "WLock"

\* the write lock is granted when nobody holds the lock
CanWLock(writer, readers) == writer = NoCaller /\ readers = {}

LockInit ==
    /\ lkPc = [p \in Callers |-> "idle"]
    /\ lkOp = [p \in Callers |-> "none"]
    /\ lkMu = NoCaller
    /\ lkReaders = {}
    /\ lkWriter = NoCaller
    /\ lkBucket = TRUE
    /\ lkLast = "none"

LockIdle == LockInit

\* a caller starts an operation
Call(p) ==
    /\ lkPc[p] = "idle"
    /\ \E op \in LockOps :
        /\ lkOp' = [lkOp EXCEPT ![p] = op]
        /\ lkPc' = [lkPc EXCEPT ![p] = FirstStep(op)]
    /\ UNCHANGED <<lkMu, lkReaders, lkWriter, lkBucket, lkLast>>
    /\ UNCHANGED notLock

\* s.bucketService.RLock()
RLock(p) ==
    /\ lkPc[p] = "RLock"
    /\ CanRLock(lkWriter, lkPc)
    /\ lkReaders' = lkReaders \cup {p}
    /\ lkPc' = [lkPc EXCEPT ![p] = "Lock"]
    /\ UNCHANGED <<lkOp, lkMu, lkWriter, lkBucket, lkLast>>
    /\ UNCHANGED notLock

\* s.store.Mu.Lock()
Lock(p) ==
    /\ lkPc[p] = "Lock"
    /\ lkMu = NoCaller
    /\ lkMu' = p
    /\ lkPc' = [lkPc EXCEPT ![p] = IF lkOp[p] = "CreateReplication"
                                   THEN "FindBucketByID" ELSE "statement"]
    /\ UNCHANGED <<lkOp, lkReaders, lkWriter, lkBucket, lkLast>>
    /\ UNCHANGED notLock

\* the return of an operation: the deferred Mu.Unlock runs; a caller that
\* holds the read lock too has its deferred RUnlock still to run
Returned(p, exit) ==
    /\ lkMu' = MuAfterReturn(lkMu, p, exit)
    /\ lkPc' = [lkPc EXCEPT ![p] = IF p \in lkReaders THEN "RUnlock" ELSE "idle"]
    /\ lkOp' = [lkOp EXCEPT ![p] = IF p \in lkReaders THEN @ ELSE "none"]
    /\ lkLast' = exit
    /\ UNCHANGED <<lkReaders, lkWriter, lkBucket>>

\* defer s.bucketService.RUnlock(): the last deferred call of CreateReplication
RUnlock(p) ==
    /\ lkPc[p] = "RUnlock"
    /\ lkReaders' = lkReaders \ {p}
    /\ lkPc' = [lkPc EXCEPT ![p] = "idle"]
    /\ lkOp' = [lkOp EXCEPT ![p] = "none"]
    /\ UNCHANGED <<lkMu, lkWriter, lkBucket, lkLast>>
    /\ UNCHANGED notLock

\* s.bucketService.FindBucketByID: the bucket is there, or the operation
\* returns errLocalBucketNotFound
FindBucketByID(p) ==
    /\ lkPc[p] = "FindBucketByID"
    /\ IF lkBucket
       THEN /\ lkPc' = [lkPc EXCEPT ![p] = "insert"]
            /\ UNCHANGED <<lkOp, lkMu, lkReaders, lkWriter, lkBucket, lkLast>>
       ELSE Returned(p, "error")
    /\ UNCHANGED notLock

\* the statement of an operation, or the insert of CreateReplication, and
\* the return after it, up to the deferred Mu.Unlock
Return(p) ==
    /\ lkPc[p] \in {"statement", "insert"}
    /\ \E exit \in Exits : Returned(p, exit)
    /\ UNCHANGED notLock

\* the bucket service's write lock, taken by the deletion of a bucket
WLock(p) ==
    /\ lkPc[p] = "WLock"
    /\ CanWLock(lkWriter, lkReaders)
    /\ lkWriter' = p
    /\ lkPc' = [lkPc EXCEPT ![p] = "delete"]
    /\ UNCHANGED <<lkOp, lkMu, lkReaders, lkBucket, lkLast>>
    /\ UNCHANGED notLock

\* the bucket is deleted and the write lock released
DeleteBucket(p) ==
    /\ lkPc[p] = "delete"
    /\ lkBucket' = FALSE
    /\ lkWriter' = NoCaller
    /\ lkPc' = [lkPc EXCEPT ![p] = "idle"]
    /\ lkOp' = [lkOp EXCEPT ![p] = "none"]
    /\ lkLast' = "return"
    /\ UNCHANGED <<lkMu, lkReaders>>
    /\ UNCHANGED notLock

LockStep ==
    \E p \in Callers :
        \/ Call(p)
        \/ RLock(p)
        \/ Lock(p)
        \/ FindBucketByID(p)
        \/ Return(p)
        \/ RUnlock(p)
        \/ WLock(p)
        \/ DeleteBucket(p)

(***************************************************************************)
(* The specifications: one per subsystem.                                  *)
(***************************************************************************)
vars == <<tsmVars, tombVars, mergeVars, shardVars, walVars, storeVars, remoteVars, twinVars, replVars, lockVars>>

InitTSM == TsmInit /\ TombIdle /\ MergeIdle /\ ShardIdle /\ WalIdle /\ StoreIdle /\ RemoteIdle /\ TwinIdle /\ ReplIdle /\ LockIdle
NextTSM == TsmStep
SpecTSM == InitTSM /\ [][NextTSM]_vars

InitTomb == TombInit /\ TsmIdle /\ MergeIdle /\ ShardIdle /\ WalIdle /\ StoreIdle /\ RemoteIdle /\ TwinIdle /\ ReplIdle /\ LockIdle
NextTomb == TombStep
SpecTomb == InitTomb /\ [][NextTomb]_vars

InitMerge == MergeInit /\ TsmIdle /\ TombIdle /\ ShardIdle /\ WalIdle /\ StoreIdle /\ RemoteIdle /\ TwinIdle /\ ReplIdle /\ LockIdle
NextMerge == MergeStep
SpecMerge == InitMerge /\ [][NextMerge]_vars

InitShard == ShardInit /\ TsmIdle /\ TombIdle /\ MergeIdle /\ WalIdle /\ StoreIdle /\ RemoteIdle /\ TwinIdle /\ ReplIdle /\ LockIdle
NextShard == ShardStep
SpecShard == InitShard /\ [][NextShard]_vars

InitWal == WalInit /\ TsmIdle /\ TombIdle /\ MergeIdle /\ ShardIdle /\ StoreIdle /\ RemoteIdle /\ TwinIdle /\ ReplIdle /\ LockIdle
NextWal == WalStep
SpecWal == InitWal /\ [][NextWal]_vars

InitStore == StoreInit /\ TsmIdle /\ TombIdle /\ MergeIdle /\ ShardIdle /\ WalIdle /\ RemoteIdle /\ TwinIdle /\ ReplIdle /\ LockIdle
NextStore == StoreStep
SpecStore == InitStore /\ [][NextStore]_vars

InitRemote == RemoteInit /\ TsmIdle /\ TombIdle /\ MergeIdle /\ ShardIdle /\ WalIdle /\ StoreIdle /\ TwinIdle /\ ReplIdle /\ LockIdle
NextRemote == RemoteStep
SpecRemote == InitRemote /\ [][NextRemote]_vars

InitTwins == TwinInit /\ TsmIdle /\ TombIdle /\ MergeIdle /\ ShardIdle /\ WalIdle /\ StoreIdle /\ RemoteIdle /\ ReplIdle /\ LockIdle
NextTwins == TwinStep
SpecTwins == InitTwins /\ [][NextTwins]_vars

InitRepl == ReplInit /\ TsmIdle /\ TombIdle /\ MergeIdle /\ ShardIdle /\ WalIdle /\ StoreIdle /\ RemoteIdle /\ TwinIdle /\ LockIdle
NextRepl == ReplStep
SpecRepl == InitRepl /\ [][NextRepl]_vars

InitLocks == LockInit /\ TsmIdle /\ TombIdle /\ MergeIdle /\ ShardIdle /\ WalIdle /\ StoreIdle /\ RemoteIdle /\ TwinIdle /\ ReplIdle
NextLocks == LockStep
SpecLocks == InitLocks /\ [][NextLocks]_vars

NextRouter == RouterStep
SpecRouter == InitRemote /\ [][NextRouter]_vars

(***************************************************************************)
(* Claims about verify-tsm, checked under SpecTSM.                         *)
(***************************************************************************)

\* C1: in default (checksum) mode a run that counted at least one broken
\* block ends in a failing exit status; in particular the run over one file
\* with one corrupted block, which reports Broken Blocks: 1/1, does.
C1_BrokenBlocksExitNonZero ==
    (tsmPc = "done" /\ ~checkUTF8 /\ tsmV.totalErrors >= 1) => TsmExitNonZero

\* C2: in default mode, once the summary is reported every loaded file has
\* been visited exactly once, in order, the reported total is the number of
\* blocks the iterators delivered and the reported broken count is the number
\* of those whose read failed or whose checksum differs from the CRC-32 of
\* the bytes; at every point of the scan broken <= total, and the scan has
\* read every block of the files it is done with.
C2_ChecksumScanCountsEveryBlock ==
    ~checkUTF8 =>
        /\ tsmV.totalErrors <= tsmV.total
        /\ tsmPc = "loop" =>
              /\ tsmV.total = tsmSeen.blocks
              /\ tsmV.totalErrors = tsmSeen.broken
        /\ tsmOut.summary # NoSummary =>
              /\ tsmSeen.visited = tsmSeen.loaded
              /\ tsmOut.summary = <<"Broken Blocks", tsmSeen.broken, tsmSeen.blocks>>
              /\ tsmSeen.reads = tsmSeen.blocks

\* C2 witness: two files of two blocks each were scanned to the end, the
\* first block read was broken, and two of the four blocks are reported.
C2_Witness ==
    /\ ~checkUTF8
    /\ tsmPc = "done"
    /\ tsmSeen.visited = <<1, 2>>
    /\ tsmOut.summary = <<"Broken Blocks", 2, 4>>
    /\ tsmSeen.crc = 3

\* C3 as stated: in --check-utf8 mode the command returns an error exactly
\* when the invalid count is greater than zero.
C3_ErrorExactlyWhenInvalidKeys ==
    (checkUTF8 /\ tsmPc = "done") => (TsmExitNonZero <=> tsmV.totalErrors > 0)

\* C3 amended: in --check-utf8 mode no block is read and no checksum is
\* computed; once the summary is reported every loaded file has been visited
\* once, the reported total is the sum of the key counts and the reported
\* invalid count the number of keys that are not valid UTF-8; and the command
\* returns nil exactly when it reported a summary with an invalid count of
\* zero: it returns an error when the count is positive, and also, without
\* any summary, when the directory walk or the opening of a file failed.
C3_CheckUTF8CountsEveryKey ==
    checkUTF8 =>
        /\ tsmSeen.reads = 0 /\ tsmSeen.crc = 0
        /\ tsmV.totalErrors <= tsmV.total
        /\ tsmOut.summary # NoSummary =>
              /\ tsmSeen.visited = tsmSeen.loaded
              /\ tsmOut.summary = <<"Invalid Keys", tsmSeen.invalid, tsmSeen.keys>>
              /\ TsmExitNonZero <=> tsmV.totalErrors > 0
        /\ tsmPc = "done" =>
              /\ tsmErr = "nil" <=> (tsmOut.summary # NoSummary /\ tsmV.totalErrors = 0)
              /\ tsmOut.summary = NoSummary <=> tsmErr \in {"loadFiles", "open", "reader"}

\* C3 witness: two files were checked, three keys in all, one of them the
\* truncated rune, and the command failed with check-utf8: failed.
C3_Witness ==
    /\ checkUTF8
    /\ tsmPc = "done"
    /\ tsmSeen.visited = <<1, 2>>
    /\ tsmOut.summary = <<"Invalid Keys", 1, 3>>
    /\ tsmErr = "check-utf8: failed"

(***************************************************************************)
(* Claims about verify-tombstone, checked under SpecTomb.                  *)
(***************************************************************************)

\* C4 as stated: verify-tombstone returns an error exactly when at least
\* one file failed to walk to completion.
C4_ErrorExactlyWhenAWalkFailed ==
    tombPc = "done" => (TombExitNonZero <=> tombSeen.failedWalks # {})

\* C4 amended: the failure flag is set exactly when some walk so far has
\* failed and is never cleared by a later file; after a failed walk the
\* remaining files are still taken from the work list, so a run whose
\* directory walk succeeded ends with every loaded file visited; and the
\* command returns an error exactly when the directory walk failed or at
\* least one file failed to walk to completion.
C4_ErrorWhenLoadOrAWalkFailed ==
    /\ tombPc \in {"loop", "walk", "done"} /\ tombErr # "loadFiles" =>
          (failed <=> tombSeen.failedWalks # {})
    /\ tombPc = "done" =>
          /\ TombExitNonZero <=> (tombErr = "loadFiles" \/ tombSeen.failedWalks # {})
          /\ tombErr # "loadFiles" => tombSeen.visited = tombSeen.loaded

\* C4 witness: the walk of the first file failed, the second file was then
\* walked to completion, and the command returned the error.
C4_Witness ==
    /\ tombPc = "done"
    /\ tombSeen.failedWalks = {1}
    /\ tombOut.report[2][1] = "verified"
    /\ tombErr = "failed tombstone verification"

\* C5: the count reported for a file, as "Verified N entries" or as
\* "Last okay entry: N", is the number of visitor invocations made for that
\* file alone.
C5_ReportedCountIsPerFile ==
    \A p \in Paths :
        tombOut.report[p][1] \in {"verified", "failed"} =>
            tombOut.report[p][2] = tombSeen.visits[p]

\* C5 witness: the first file was verified with two entries and the walk of
\* the second failed after one entry, reported as last okay entry 1.
C5_Witness ==
    /\ tombOut.report[1] = <<"verified", 2>>
    /\ tombOut.report[2] = <<"failed", 1>>

\* C6: a file without tombstones is never walked and does not set the
\* failure flag, and a run in which no file was walked (there are no files,
\* or none has tombstones) returns nil; "No tombstone files found" is only
\* printed by a run that returns nil.
C6_NoTombstonesIsNeutral ==
    /\ \A p \in Paths :
          tombOut.report[p] = <<"no entries">> =>
              p \notin tombSeen.walked /\ tombSeen.visits[p] = 0
    /\ (tombErr # "loadFiles" /\ tombSeen.walked = {}) => ~failed
    /\ (tombPc = "done" /\ tombErr # "loadFiles" /\ tombSeen.walked = {}) =>
          tombErr = "nil"
    /\ (tombPc = "done" /\ tombErr # "loadFiles") =>
          (tombOut.noFiles <=> tombSeen.loaded = <<>>)
    /\ tombOut.noFiles => tombErr = "nil"

\* C6 witness: a run over two files, neither of which has tombstones,
\* returned nil.
C6_Witness ==
    /\ tombPc = "done"
    /\ tombOut.report[1] = <<"no entries">>
    /\ tombOut.report[2] = <<"no entries">>
    /\ tombErr = "nil"
    /\ ~tombOut.noFiles

(***************************************************************************)
(* Claims about the compactor's merge, checked under SpecMerge.            *)
(***************************************************************************)

\* C9: for every key and every time range, reading the single output file
\* of the merge returns the same points as reading the input files with
\* their tombstones applied and duplicate timestamps resolved in favour of
\* the highest generation.
C9_MergeIsTransparent ==
    mgPc = "done" =>
        \A k \in Keys, t0 \in Times, t1 \in Times :
            ReadFile(mgFile, <<>>, k, t0, t1)
                = ReadAcross({mgInputs[g] : g \in MergeGens}, k, t0, t1)

\* C9 witness: the merge is done; the two inputs both hold the point
\* (cpu, 1), a tombstone of the newer file covers it there, the output keeps
\* the older file's point, and some other point went through as well.
C9_Witness ==
    /\ mgPc = "done"
    /\ ReadFile(mgInputs[1].file, <<>>, "cpu", 1, 1) # <<>>
    /\ ReadFile(mgInputs[2].file, <<>>, "cpu", 1, 1) # <<>>
    /\ Covered(mgInputs[2].tombs, "cpu", 1)
    /\ ReadFile(mgFile, <<>>, "cpu", 1, 1) = <<[key |-> "cpu", time |-> 1, value |-> 1]>>
    /\ Len(mgFile.points) = 2

\* C7: while a compaction publishes, every file of the file set and every file
\* a query holds a reference to is on disk; every live point is readable from
\* the current file set, and for a query from the file set it refers to; the
\* inputs are on disk until the swap, and the one step that makes the output
\* part of the file set takes all the inputs out of it.
C7_Readable ==
    /\ \A g \in fileSet : files[g] # NoFile
    /\ \A g \in marked : g \notin fileSet
    /\ live \subseteq LiveSlots(fileSet, files, tombs)
    /\ rd.held => /\ \A g \in rd.ref : files[g] # NoFile
                  /\ rd.live \subseteq LiveSlots(rd.ref, files, tombs)
    /\ cp.state # "Idle" => /\ \A g \in cp.inputs : files[g] # NoFile
                            /\ cp.inputs \subseteq fileSet
                            /\ cp.outGen \notin fileSet

C7_Swap ==
    (cp.state = "Publishing" /\ cp.outGen # 0 /\ cp'.state = "Idle") =>
          /\ cp.outGen \in fileSet'
          /\ cp.inputs \cap fileSet' = {}
          /\ fileSet' \ {cp.outGen} = fileSet \ cp.inputs
          /\ files' = files /\ tombs' = tombs

C7_PublishingLosesNoPoint == []C7_Readable /\ [][C7_Swap]_vars

\* C7 witness: a compaction of two files was published while a query held a
\* reference to one of them: that input is still on disk, marked for deletion,
\* and the other input is deleted
C7_Witness ==
    /\ rd.held
    /\ \E g \in rd.ref : g \in marked /\ files[g] # NoFile /\ tombs[g] # <<>>
    /\ \E g \in Gens : g < nextGen /\ files[g] = NoFile
    /\ fileSet # {} /\ live # {}

\* whether a shard (its file set, files, tombstones, files marked for deletion
\* and the file set a query refers to) is what the record w of a shard without
\* the compaction says: all of these are the same, and so is, for every
\* (key, time), what a read of the file set and what the query reads
C8_Same(fs, f, ts, m, ref, w) ==
    /\ fs = w.fileSet /\ f = w.files /\ ts = w.tombs
    /\ m = w.marked /\ ref = w.ref
    /\ \A k \in Keys, t \in Times :
          /\ ReadSlot(ViewOf(fs, f, ts), k, t)
                = ReadSlot(ViewOf(w.fileSet, w.files, w.tombs), k, t)
          /\ ReadSlot(ViewOf(ref, f, ts), k, t)
                = ReadSlot(ViewOf(w.ref, w.files, w.tombs), k, t)

\* whether the sequence s begins with the sequence p
C8_BeginsWith(s, p) == Len(p) <= Len(s) /\ SubSeq(s, 1, Len(p)) = p

\* a step that ends Merging in failure
C8_MergeFailed == cp.state = "Merging" /\ abandoned'.why = "merge failed"

\* C8 as stated: after a step that ends Merging in failure, the file set is
\* the file set that Planning found, and the input files and their tombstones
\* are those that Planning found.
C8_AsBeforePlanning ==
    [][C8_MergeFailed =>
          /\ fileSet' = cp.before.fileSet
          /\ \A g \in cp.inputs : /\ files'[g] = cp.before.files[g]
                                  /\ tombs'[g] = cp.before.tombs[g]]_vars

\* C8: after a step that ends Merging in failure the shard is as it would be
\* had the compaction not started: the file set, the files and the tombstones
\* are as they were before Planning but for the files that flushes added and
\* the tombstone entries that deletes appended since; the input files are the
\* files that Planning found and their tombstones begin with the entries that
\* Planning found; no output is written or in the file set, no input is
\* deleted or marked for deletion; the compactor is Idle and the inputs are
\* files of the file set, which a later Planning may select.
C8_Abandon ==
    C8_MergeFailed =>
        /\ C8_Same(fileSet', files', tombs', marked', rd'.ref, cp.without)
        /\ cp.before.fileSet \subseteq fileSet'
        /\ \A g \in cp.inputs :
              /\ files'[g] = cp.before.files[g]
              /\ C8_BeginsWith(tombs'[g], cp.before.tombs[g])
              /\ g \in fileSet' /\ g \notin marked'
        /\ cp.out = <<>> /\ cp.outGen = 0 /\ nextGen' = nextGen
        /\ cp'.state = "Idle"
        /\ cp.inputs \in (SUBSET fileSet') \ {{}}

C8_FailedMergeChangesNothing == [][C8_Abandon]_vars

\* C8 witness: a merge failed; since Planning a flush added a file to the file
\* set and a delete appended a tombstone to an input
C8_Witness ==
    /\ abandoned.why = "merge failed" /\ cp.state = "Idle"
    /\ abandoned.flushed /\ abandoned.deleted
    /\ Cardinality(fileSet) = 2
    /\ marked = {}

\* what is durable: the indexed TSM files with the replay of the retained WAL
\* segments over them
C10_Durable == Overlay(indexed, Replay(EmptyCache, wal))

\* C10: after a crash, at whatever stage of a snapshot flush, the replay of the
\* retained WAL segments gives the Cache that there would be had no flush been
\* attempted since the last completed one; every acknowledged write is in a
\* retained segment or in an indexed TSM file, unless a later write to the
\* same (key, time) is there in its place; and a step that removes WAL
\* segments is taken only when the TSM file written from their frozen view is
\* indexed.
C10_Recoverable ==
    /\ up.mode = "recovered" => cache = shadow
    /\ \A sl \in WalSlots : C10_Durable[sl] >= acked[sl]

C10_Sweep ==
    Len(wal') < Len(wal) =>
        /\ snap.stage = "indexed"
        /\ Overlay(indexed, snap.view) = indexed

C10_CrashSafe == []C10_Recoverable /\ [][C10_Sweep]_vars

\* C10 witness: after one flush completed, the process crashed while the TSM
\* file of the next was written and not indexed, with an acknowledged write in
\* the closed segment and one in the open segment; the segments were replayed
C10_Witness ==
    /\ up.mode = "recovered" /\ up.at = "written"
    /\ Len(wal) = 2 /\ wal[1] # <<>> /\ wal[2] # <<>>
    /\ indexed # EmptyCache
    /\ cache # EmptyCache
    /\ \E sl \in WalSlots : acked[sl] = wal[2][Len(wal[2])].val

\* C11: the Cache is updated for a write only after its WAL append succeeded,
\* and a read that starts after a write was acknowledged observes it.  While
\* the engine runs, what a read observes (the indexed TSM files, the frozen
\* view of a snapshot and the Cache) is what is durable, but for the one write
\* that is appended and not yet in the Cache, which is not acknowledged
\* either; so the write of a failed append is never observed.  And for every
\* (key, time) the read observes the latest acknowledged write or a later
\* write to the same (key, time), also while a snapshot swapped the Cache.
C11_ReadAfterAckObserves ==
    Alive =>
        /\ \A sl \in WalSlots : ReadView[sl] >= acked[sl]
        /\ pending = NoWrite \/ pending.applied => ReadView = C10_Durable
        /\ pending # NoWrite /\ ~pending.applied =>
              /\ ApplyWrite(ReadView, pending) = C10_Durable
              /\ ReadView[pending.slot] # pending.val
              /\ acked[pending.slot] # pending.val

\* C11 witness: a write was acknowledged, the Cache was swapped by a snapshot,
\* an append failed, and a later write to the same (key, time) was appended,
\* applied and acknowledged while the frozen view is being flushed
C11_Witness ==
    /\ Alive /\ pending = NoWrite
    /\ snap.stage = "frozen" /\ snap.view # EmptyCache
    /\ Len(wal) = 2 /\ Len(wal[1]) = 1 /\ Len(wal[2]) = 1
    /\ wal[1][1].slot = wal[2][1].slot
    /\ writes = 3
    /\ acked = ReadView /\ acked[wal[2][1].slot] = wal[2][1].val

\* C12: the append of a tombstone (k, t0, t1) for a file takes out of every
\* read of the file the points of k with a timestamp in the inclusive range
\* [t0, t1] and nothing else: for every key and range, the read after the
\* append is the read before it without those points, in the same order and
\* with the same values.
C12_Append ==
    stTombs' # stTombs =>
        LET e == stTombs'[Len(stTombs')]
        IN  \A k \in Keys, t0 \in Times, t1 \in Times :
                ReadFile(stFile', stTombs', k, t0, t1)
                    = SelectSeq(ReadFile(stFile, stTombs, k, t0, t1),
                                LAMBDA p : ~(p.key = e.key /\ e.min <= p.time
                                             /\ p.time <= e.max))

C12_TombstonePredicate == [][C12_Append]_vars

\* C12 witness: the file has the points t=1 and t=2 of cpu and a point of mem,
\* the tombstone (cpu, 1, 1) was appended, and a read of cpu over [1, 2]
\* returns only the point at t=2 while the point of mem is returned
C12_Witness ==
    /\ stFile.points = PointsOf({<<"cpu", 1>>, <<"cpu", 2>>, <<"mem", 1>>}, 1)
    /\ stTombs = <<[key |-> "cpu", min |-> 1, max |-> 1]>>
    /\ ReadFile(stFile, stTombs, "cpu", 1, 2) = <<[key |-> "cpu", time |-> 2, value |-> 1]>>
    /\ ReadFile(stFile, stTombs, "mem", 1, 2) = <<[key |-> "mem", time |-> 1, value |-> 1]>>

\* C13: from Planning until Publishing begins, and after a step that cancels
\* the compaction in Planning or Merging, the shard is as it would be had the
\* compaction not started, whatever flushes, deletes, queries and file
\* deletions ran since Planning: the file set, the files and their tombstones,
\* the files marked for deletion and the file set a query refers to are the
\* same, and a read of the file set, and of the file set a query refers to,
\* gives for every (key, time) what it would give; the inputs are files of the
\* file set, and the compactor is Idle after the cancellation.
C13_Untouched ==
    BeforePublishing(cp) =>
        /\ C8_Same(fileSet, files, tombs, marked, rd.ref, cp.without)
        /\ cp.inputs \subseteq fileSet

C13_Cancel ==
    (BeforePublishing(cp) /\ abandoned'.why = "cancelled") =>
        /\ C8_Same(fileSet', files', tombs', marked', rd'.ref, cp.without)
        /\ cp.inputs \subseteq fileSet'
        /\ nextGen' = nextGen
        /\ cp'.state = "Idle"

C13_CancelHasNoEffect == []C13_Untouched /\ [][C13_Cancel]_vars

\* C13 witness: a compaction was cancelled in a shard of two files while a
\* query held a reference to the file set; since Planning a delete appended
\* a tombstone to an input
C13_Witness ==
    /\ cp.state = "Idle" /\ abandoned.why = "cancelled"
    /\ abandoned.deleted
    /\ Cardinality(fileSet) = 2
    /\ rd.held /\ rd.ref = fileSet
    /\ marked = {}

(***************************************************************************)
(* Claims about the remote connection service, checked under SpecRemote.   *)
(* A statement the store refuses (its error is returned as it is) is not   *)
(* a case of these claims.                                                 *)
(***************************************************************************)

\* C14: validating a new remote connection never persists it: after
\* ValidateNewRemoteConnection has returned, with success or with a
\* validation error, the stored connections are the ones before (a Get for
\* the ID a create would draw is not-found), and the POST handler with
\* validate=true calls only ValidateNewRemoteConnection, never
\* CreateRemoteConnection, and stores nothing.
C14_ValidatingNewPersistsNothing ==
    /\ rmLast.op = "ValidateNew" =>
          /\ rmTable = rmLast.before
          /\ Lookup(rmTable, rmNextID, TRUE).err = errRemoteNotFound
    /\ rmLast.op = "POST" /\ rmLast.arg[1] = "true" =>
          /\ Range(rmLast.svc) \subseteq {"ValidateNewRemoteConnection"}
          /\ rmTable = rmLast.before
          /\ Lookup(rmTable, rmNextID, TRUE).err = errRemoteNotFound

C14_Witness ==
    /\ rmLast.op = "POST"
    /\ rmLast.arg[1] = "true"
    /\ rmLast.svc = <<"ValidateNewRemoteConnection">>
    /\ rmLast.err.Code = "invalid"
    /\ rmTable # <<>>

\* the row with the id in a table that has it
RowWithID(table, id) == table[IndexOf(table, id)]

\* C15: ValidateUpdatedRemoteConnection of a stored connection hands the
\* validator one configuration: the stored URL, token, remote org ID and TLS
\* setting, each replaced by the field of the request where the request has
\* it; and it persists nothing: with either answer of the validator the
\* table is the one before, so a following Get returns the connection as it
\* was and a following Validate validates the stored configuration.
C15_ValidatingUpdateOverridesAndPersistsNothing ==
    rmLast.op = "ValidateUpdated" =>
        /\ rmTable = rmLast.before
        /\ rmLast.calls # <<>> =>
              LET id == rmLast.arg[1]
                  request == rmLast.arg[2]
                  was == RowWithID(rmLast.before, id)
                  now == RowWithID(rmTable, id)
                  given == rmLast.calls[1]
              IN  /\ Len(rmLast.calls) = 1
                  /\ given.RemoteURL = IF request.RemoteURL = Nil THEN was.remote_url
                                       ELSE request.RemoteURL[1]
                  /\ given.RemoteToken = IF request.RemoteToken = Nil
                                         THEN was.remote_api_token
                                         ELSE request.RemoteToken[1]
                  /\ given.RemoteOrgID = IF request.RemoteOrgID = Nil
                                         THEN was.remote_org_id
                                         ELSE request.RemoteOrgID[1]
                  /\ given.AllowInsecureTLS = IF request.AllowInsecureTLS = Nil
                                              THEN was.allow_insecure_tls
                                              ELSE request.AllowInsecureTLS[1]
                  /\ DOMAIN given = {"RemoteURL", "RemoteToken", "RemoteOrgID",
                                     "AllowInsecureTLS"}
                  /\ Lookup(rmTable, id, TRUE).row = Some(was)
                  /\ ConnectionOf(now) = ConnectionOf(was)
                  /\ ConfigOf(now) = ConfigOf(was)

C15_Witness ==
    /\ rmLast.op = "ValidateUpdated"
    /\ rmLast.arg[2] = updateReq
    /\ rmLast.calls # <<>>
    /\ rmLast.calls[1].RemoteToken = "qrstuvwxyz"
    /\ RowWithID(rmTable, rmLast.arg[1]).remote_api_token = "abcdefghijklmnop"
    /\ rmLast.err.Code = "invalid"

\* C16: UpdateRemoteConnection of a stored connection sets exactly the
\* fields the request has (name, description, URL, token, remote org ID, TLS
\* setting) and leaves the other fields, the ID and the org ID as they were;
\* it returns the connection of the updated row and changes no other row;
\* with an empty request it returns the connection with all fields as they
\* were.
C16_UpdateChangesExactlyTheGivenFields ==
    rmLast.op = "Update" /\ rmLast.err = NoError =>
        LET id == rmLast.arg[1]
            request == rmLast.arg[2]
            was == RowWithID(rmLast.before, id)
            now == RowWithID(rmTable, id)
        IN  /\ now.id = was.id
            /\ now.org_id = was.org_id
            /\ now.name = IF request.Name = Nil THEN was.name ELSE request.Name[1]
            /\ now.description = IF request.Description = Nil THEN was.description
                                 ELSE request.Description
            /\ now.remote_url = IF request.RemoteURL = Nil THEN was.remote_url
                                ELSE request.RemoteURL[1]
            /\ now.remote_api_token = IF request.RemoteToken = Nil
                                      THEN was.remote_api_token
                                      ELSE request.RemoteToken[1]
            /\ now.remote_org_id = IF request.RemoteOrgID = Nil
                                   THEN was.remote_org_id
                                   ELSE request.RemoteOrgID[1]
            /\ now.allow_insecure_tls = IF request.AllowInsecureTLS = Nil
                                        THEN was.allow_insecure_tls
                                        ELSE request.AllowInsecureTLS[1]
            /\ rmLast.out = Some(ConnectionOf(now))
            /\ Len(rmTable) = Len(rmLast.before)
            /\ \A i \in 1..Len(rmTable) :
                  rmLast.before[i].id # id => rmTable[i] = rmLast.before[i]
            /\ request = noUpdate =>
                  /\ rmLast.out = Some(ConnectionOf(was))
                  /\ rmTable = rmLast.before

C16_Witness ==
    /\ rmLast.op = "Update"
    /\ rmLast.err = NoError
    /\ rmLast.arg[2] = updateReq
    /\ Len(rmTable) = 2
    /\ RowWithID(rmLast.before, rmLast.arg[1]).allow_insecure_tls = TRUE
    /\ RowWithID(rmLast.before, rmLast.arg[1]).name = "test"
    /\ rmLast.out[1].AllowInsecureTLS = FALSE
    /\ rmLast.out[1].Name = "test"

\* what a successful create returned is the connection with the ID drawn from
\* the generator and the fields of the request, and it is what a Get with
\* that ID returns now
C17_Created ==
    rmLast.op = "Create" /\ rmLast.err = NoError =>
        LET request == rmLast.arg[1]
            c == rmLast.out[1]
        IN  /\ c.ID = rmNextID - 1
            /\ c.OrgID = request.OrgID
            /\ c.Name = request.Name
            /\ c.Description = request.Description
            /\ c.RemoteURL = request.RemoteURL
            /\ c.RemoteOrgID = request.RemoteOrgID
            /\ c.AllowInsecureTLS = request.AllowInsecureTLS
            /\ DOMAIN c = {"ID", "OrgID", "Name", "Description", "RemoteURL",
                           "RemoteOrgID", "AllowInsecureTLS"}
            /\ RowsWithID(rmLast.before, c.ID) = {}
            /\ Lookup(rmTable, c.ID, TRUE).row # Nil
            /\ ConnectionOf(Lookup(rmTable, c.ID, TRUE).row[1]) = c

\* what a successful Get returned is the connection of the one row with the ID
C17_Got ==
    rmLast.op = "Get" /\ rmLast.err = NoError =>
        /\ Cardinality(RowsWithID(rmTable, rmLast.arg[1])) = 1
        /\ rmLast.out = Some(ConnectionOf(RowWithID(rmTable, rmLast.arg[1])))

\* a call that is no update and no delete of a stored connection has left
\* the connection a Get returns for its ID as it was before the call
C17_Kept ==
    \A id \in RmIDs :
        /\ RowsWithID(rmLast.before, id) # {}
        /\ ~(rmLast.op \in {"Update", "Delete"} /\ rmLast.arg[1] = id)
        => /\ RowsWithID(rmTable, id) # {}
           /\ ConnectionOf(RowWithID(rmTable, id)) =
                 ConnectionOf(RowWithID(rmLast.before, id))

\* C17: create/get round trip: CreateRemoteConnection returns the connection
\* with the ID drawn from the ID generator and the request's org, name,
\* description, URL, remote org ID and TLS setting, and from then until the
\* connection is updated or deleted a Get with that ID returns a connection
\* equal to the create response.
C17_CreateGetRoundTrip == C17_Created /\ C17_Got /\ C17_Kept

C17_Witness ==
    /\ rmLast.op = "Get"
    /\ rmLast.err = NoError
    /\ rmLast.out[1].ID = initID + 1
    /\ rmLast.out[1].Description = Some("testing testing")
    /\ Len(rmTable) = 2

\* C18: for an ID that is not stored (never created, or deleted), Get,
\* Update, Delete and Validate return the remote-connection-not-found error,
\* with a nil result where there is one, call the validator not once and
\* leave the stored connections as they are; and after a successful delete
\* the ID is not stored, so a Get and a second Delete of it are this case.
C18_NotStoredIsNotFound ==
    /\ /\ rmLast.op \in {"Get", "Update", "Delete", "Validate"}
       /\ RowsWithID(rmLast.before, rmLast.arg[1]) = {}
       /\ rmLast.err # StoreError
       => /\ rmLast.err.Code = "not found"
          /\ rmLast.err.Msg = "remote connection not found"
          /\ rmLast.out = Nil
          /\ rmLast.calls = <<>>
          /\ rmTable = rmLast.before
    /\ rmLast.op = "Delete" /\ rmLast.err = NoError =>
          /\ RowsWithID(rmLast.before, rmLast.arg[1]) # {}
          /\ RowsWithID(rmTable, rmLast.arg[1]) = {}
          /\ rmNextID > rmLast.arg[1]

C18_Witness ==
    /\ rmLast.op = "Delete"
    /\ rmLast.err.Code = "not found"
    /\ rmLast.arg[1] < rmNextID
    /\ rmTable # <<>>

\* the stored rows a filter selects, in the order of their creation
MatchingInOrder(table, filter) == SelectSeq(table, LAMBDA row : Matches(row, filter))

\* C19: ListRemoteConnections returns, in creation order, exactly the stored
\* connections whose org ID is the filter's and whose name and remote URL
\* are the filter's where the filter has them; connections of another org
\* are not returned, and an org without connections yields the empty list
\* and no error.
C19_ListedInCreationOrder ==
    rmLast.op = "List" /\ rmLast.err = NoError =>
        /\ rmLast.out =
              Some(ConnectionsOf(MatchingInOrder(rmLast.before, rmLast.arg[1])))
        /\ \A i \in 1..Len(rmLast.out[1]) :
              rmLast.out[1][i].OrgID = rmLast.arg[1].OrgID
        /\ rmTable = rmLast.before

\* a Validate of a stored connection has handed the validator, once, the
\* URL, token, remote org ID and TLS setting of the row, and has returned no
\* error for the validator's nil and for the validator's error an invalid
\* error that wraps it
C20_Validated ==
    rmLast.op = "Validate" =>
        /\ /\ RowsWithID(rmLast.before, rmLast.arg[1]) # {}
           /\ rmLast.err # StoreError
           => Len(rmLast.said) = 1
        /\ rmLast.said # <<>> =>
              LET row == RowWithID(rmTable, rmLast.arg[1])
              IN  /\ rmLast.calls =
                        <<[RemoteURL |-> row.remote_url,
                           RemoteToken |-> row.remote_api_token,
                           RemoteOrgID |-> row.remote_org_id,
                           AllowInsecureTLS |-> row.allow_insecure_tls]>>
                  /\ rmLast.said[1] = "nil" => rmLast.err = NoError
                  /\ rmLast.said[1] # "nil" =>
                        /\ rmLast.err.Code = "invalid"
                        /\ rmLast.err.Msg = "remote failed validation"
                        /\ rmLast.err.Err = rmLast.said[1]

\* the four persisted values of a stored connection are the ones of its
\* create request if the last call created it, the ones before with the
\* fields of the request over them if the last call updated it with success,
\* and else the ones before
C20_Persisted ==
    \A i \in 1..Len(rmTable) :
        LET row == rmTable[i]
            request == rmLast.arg[IF rmLast.op = "Update" THEN 2 ELSE 1]
        IN  IF RowsWithID(rmLast.before, row.id) = {}
            THEN /\ rmLast.op \in {"Create", "POST"}
                 /\ LET r == IF rmLast.op = "POST" THEN rmLast.arg[2][1] ELSE request
                    IN  /\ row.remote_url = r.RemoteURL
                        /\ row.remote_api_token = r.RemoteToken
                        /\ row.remote_org_id = r.RemoteOrgID
                        /\ row.allow_insecure_tls = r.AllowInsecureTLS
            ELSE LET was == RowWithID(rmLast.before, row.id)
                     set == /\ rmLast.op = "Update"
                            /\ rmLast.arg[1] = row.id
                            /\ rmLast.err = NoError
                 IN  /\ row.remote_url =
                           IF set /\ request.RemoteURL # Nil
                           THEN request.RemoteURL[1] ELSE was.remote_url
                     /\ row.remote_api_token =
                           IF set /\ request.RemoteToken # Nil
                           THEN request.RemoteToken[1] ELSE was.remote_api_token
                     /\ row.remote_org_id =
                           IF set /\ request.RemoteOrgID # Nil
                           THEN request.RemoteOrgID[1] ELSE was.remote_org_id
                     /\ row.allow_insecure_tls =
                           IF set /\ request.AllowInsecureTLS # Nil
                           THEN request.AllowInsecureTLS[1] ELSE was.allow_insecure_tls

\* C20: ValidateRemoteConnection hands the validator exactly the persisted
\* URL, API token, remote org ID and TLS setting of the connection, which are
\* the values given at creation with those of every later successful update
\* over them (a token changed by an update is the one used afterwards); the
\* validator's error is returned wrapped in an invalid-argument error that
\* carries it.
C20_ValidateUsesPersistedConfig == C20_Validated /\ C20_Persisted

C20_Witness ==
    /\ rmLast.op = "Validate"
    /\ rmLast.said = <<"O NO">>
    /\ RowWithID(rmTable, rmLast.arg[1]).org_id = 10
    /\ rmLast.calls[1].RemoteToken = "qrstuvwxyz"
    /\ rmLast.err.Code = "invalid"

(***************************************************************************)
(* More claims about verify-tsm, checked under SpecTSM.                    *)
(***************************************************************************)

\* C27: when a .tsm file cannot be opened or its reader cannot be created,
\* verify-tsm, in either mode, stops at that file and returns the error: the
\* files after it in the work list are not examined and no summary is
\* produced; a corrupt block or an invalid key of a readable file is only
\* counted, so a run whose files are all readable examines every file and
\* produces the summary.
C27_UnreadableFileStopsTheRun ==
    /\ tsmErr \in {"open", "reader"} =>
          /\ tsmPc = "done"
          /\ tsmOut.summary = NoSummary
          /\ tsmSeen.visited # <<>>
          /\ tsmSeen.visited \o tsmV.files = tsmSeen.loaded
          /\ tsmV.f = tsmSeen.visited[Len(tsmSeen.visited)]
    /\ tsmPc = "done" /\ tsmErr \notin {"loadFiles", "open", "reader"} =>
          /\ tsmOut.summary # NoSummary
          /\ tsmSeen.visited = tsmSeen.loaded
          /\ tsmOut.summary[2] = tsmSeen.broken + tsmSeen.invalid
    /\ tsmPc \in {"loop", "keys", "blocks"} => tsmErr = "running"

C27_Witness ==
    /\ tsmErr = "reader"
    /\ tsmPc = "done"
    /\ tsmV.files # <<>>
    /\ tsmOut.summary = NoSummary

\* the last file the run visited, which is the one an error stopped it at
C28_Last == tsmSeen.visited[Len(tsmSeen.visited)]

\* C28: every file verify-tsm opened is closed exactly once by the time run
\* returns, on the normal path and on the path where a later file fails to
\* open or to parse (the file whose reader creation failed included); no
\* file is closed before run returns, so the files open at once are the
\* files processed so far.
C28_OpenedFilesClosedOnceAtReturn ==
    /\ tsmPc \in {"loop", "keys", "blocks"} =>
          /\ tsmFds.open = Range(tsmSeen.visited)
          /\ Cardinality(tsmFds.open) = Len(tsmSeen.visited)
          /\ \A p \in Paths : tsmFds.fileClose[p] = 0 /\ tsmFds.readerClose[p] = 0
    /\ tsmPc = "done" =>
          /\ tsmFds.open = {}
          /\ \A p \in Paths :
                tsmFds.fileClose[p] =
                   IF p \in Range(tsmSeen.visited) /\ ~(tsmErr = "open" /\ p = C28_Last)
                   THEN 1 ELSE 0

C28_Witness ==
    /\ tsmPc = "done"
    /\ tsmErr = "reader"
    /\ Len(tsmSeen.visited) = 2
    /\ tsmFds.fileClose[1] = 1
    /\ tsmFds.fileClose[2] = 1
    /\ tsmFds.readerClose[2] = 0

(***************************************************************************)
(* Claims about the router of the remotes handler, checked under           *)
(* SpecRouter.                                                             *)
(***************************************************************************)

\* C30: every route of the remotes handler is behind the flag of the
\* replication stream backend: with the flag absent from the context or
\* false the response is 404, no method of the service is called and the
\* stored connections are as before; with the flag true the request reaches
\* the handler of its route.
C30_RoutesAreGatedByTheFlag ==
    rmLast.op = "HTTP" =>
        LET flag == rmLast.arg[1]
            req == rmLast.arg[2]
        IN  IF flag.ok /\ flag.val
            THEN /\ rmLast.handler = HandlerOf(req.route)
                 /\ rmLast.out # Some(StatusNotFound)
            ELSE /\ rmLast.out = Some(StatusNotFound)
                 /\ rmLast.handler = "none"
                 /\ rmLast.svc = <<>>
                 /\ rmLast.calls = <<>>
                 /\ rmTable = rmLast.before

C30_Witness ==
    /\ rmLast.op = "HTTP"
    /\ rmLast.arg[1] = [ok |-> TRUE, val |-> FALSE]
    /\ rmLast.arg[2].route = "DELETE /{id}"
    /\ rmLast.arg[2].parses
    /\ rmLast.out = Some(StatusNotFound)
    /\ Lookup(rmTable, rmLast.arg[2].id, TRUE).row # Nil

(***************************************************************************)
(* Claims about two remotes stores that differ in tokens, checked under    *)
(* SpecTwins.                                                              *)
(***************************************************************************)

\* a table with the tokens taken out
WithoutTokens(table) ==
    [i \in 1..Len(table) |-> [table[i] EXCEPT !.remote_api_token = ""]]

\* C29: the remote API token is write-only through the remotes service: what
\* CreateRemoteConnection, GetRemoteConnection, UpdateRemoteConnection and
\* ListRemoteConnections return does not depend on a stored token, so two
\* stores that differ in the tokens of their connections only give the same
\* results for every sequence of these calls, and stay stores that differ in
\* the tokens only; the token leaves a store as an argument of the validator
\* alone, so the two stores answer differently only where their validators do.
C29_TokenIsWriteOnly ==
    /\ WithoutTokens(twA) = WithoutTokens(twB)
    /\ twLast.op \in {"Create", "Get", "Update", "List"} =>
          /\ twLast.a = twLast.b
          /\ twLast.errA = twLast.errB
          /\ twLast.callsA = <<>>
          /\ twLast.callsB = <<>>
    /\ twLast.callsA # twLast.callsB => twLast.op = "Validate"
    /\ twLast.op = "Validate" =>
          /\ twLast.a = twLast.b
          /\ Len(twLast.callsA) = Len(twLast.callsB)
          /\ twLast.callsA = <<>> => twLast.errA = twLast.errB
          /\ twLast.errA # twLast.errB =>
                 {twLast.errA, twLast.errB} =
                     {NoError, InvalidError("remote failed validation", "O NO")}

C29_Witness ==
    /\ twLast.op = "List"
    /\ twLast.a # Nil
    /\ Len(twLast.a[1]) = 2
    /\ \A i \in 1..Len(twA) : twA[i].remote_api_token # twB[i].remote_api_token


(***************************************************************************)
(* C21: a CreateReplication that returns an error leaves no trace.  When   *)
(* the local bucket is not found no queue is initialized and no row        *)
(* inserted; when the insert fails after the queue was initialized,        *)
(* whatever the reason, DeleteQueue is called for the new ID; and when no  *)
(* DeleteQueue of the call failed, the new ID has a queue exactly when it  *)
(* has a row, and if queues and rows matched before they match after.      *)
(***************************************************************************)
C21_Created == rpLast.op = "CreateReplication"

C21_CleanedUp ==
    \A i \in DOMAIN rpLast.qcalls :
        rpLast.qcalls[i].method = "DeleteQueue" => rpLast.qcalls[i].ok

C21_InsertFailed ==
    /\ rpLast.err # NoError
    /\ rpLast.qcalls # <<>>
    /\ rpLast.qcalls[1] = QueueCall("InitializeQueue", rpLast.qcalls[1].id, TRUE)

C21_FailedCreateLeavesNoTrace ==
    C21_Created =>
        /\ rpLast.err = errLocalBucketNotFound(rpLast.arg.LocalBucketID, "bucket") =>
              /\ rpLast.qcalls = <<>>
              /\ rpRows = rpLast.rows
              /\ rpQueues = rpLast.queues
        /\ rpLast.err # NoError => rpRows = rpLast.rows
        /\ rpLast.err = NoError => rpLast.out[1].id \in ReplIDsOf(rpRows)
        /\ C21_InsertFailed =>
              /\ Len(rpLast.qcalls) = 2
              /\ rpLast.qcalls[2].method = "DeleteQueue"
              /\ rpLast.qcalls[2].id = rpLast.qcalls[1].id
              /\ rpLast.qcalls[1].id = rpNextID - 1
        /\ C21_CleanedUp =>
              /\ rpLast.qcalls # <<>> =>
                    (rpLast.qcalls[1].id \in QueueIDs(rpQueues)
                        <=> rpLast.qcalls[1].id \in ReplIDsOf(rpRows))
              /\ QueueIDs(rpLast.queues) = ReplIDsOf(rpLast.rows)
                    => QueueIDs(rpQueues) = ReplIDsOf(rpRows)

\* a create refused for its unknown remote, whose queue was deleted again
C21_Witness ==
    /\ C21_Created
    /\ C21_InsertFailed
    /\ C21_CleanedUp
    /\ rpLast.err = errRemoteNotFoundFor(initID + 1, "foreign key")
    /\ rpLast.rows # <<>>
    /\ QueueIDs(rpQueues) = ReplIDsOf(rpRows)

(***************************************************************************)
(* C24: DeleteReplication removes the row before it deletes the queue.     *)
(* For an unknown ID it returns replication-not-found and does not call    *)
(* DeleteQueue; when DeleteQueue fails for a known ID the error is         *)
(* returned, the row is gone and the queue is still there, which is what   *)
(* a later GetReplication finds: not-found for an ID that has a queue.     *)
(***************************************************************************)
C24_Deleted == rpLast.op = "DeleteReplication"

C24_RowGoesBeforeTheQueue ==
    /\ C24_Deleted /\ rpLast.err # StoreError =>
          IF rpLast.arg \notin ReplIDsOf(rpLast.rows)
          THEN /\ rpLast.err = errReplicationNotFound
               /\ rpLast.qcalls = <<>>
               /\ rpRows = rpLast.rows
               /\ rpQueues = rpLast.queues
          ELSE /\ rpLast.qcalls = <<QueueCall("DeleteQueue", rpLast.arg,
                                              rpLast.err = NoError)>>
               /\ rpLast.err \in {NoError, QueueError("DeleteQueue")}
               /\ rpRows = ReplWithout(rpLast.rows, {rpLast.arg})
               /\ rpLast.arg \notin ReplIDsOf(rpRows)
               /\ rpLast.err = NoError => rpLast.arg \notin QueueIDs(rpQueues)
               /\ rpLast.err # NoError => rpQueues = rpLast.queues
    /\ rpLast.op = "GetReplication" /\ rpLast.err # StoreError
          /\ rpLast.arg \notin ReplIDsOf(rpRows)
          => rpLast.err = errReplicationNotFound

\* a delete whose DeleteQueue failed: the row is gone, the queue is not
C24_Witness ==
    /\ C24_Deleted
    /\ rpLast.err = QueueError("DeleteQueue")
    /\ rpLast.arg \in ReplIDsOf(rpLast.rows)
    /\ rpLast.arg \notin ReplIDsOf(rpRows)
    /\ rpLast.arg \in QueueIDs(rpQueues)

(***************************************************************************)
(* C25: UpdateReplication writes the row before it resizes the queue.      *)
(* When UpdateMaxQueueSize fails the error is returned with no             *)
(* replication, the row holds every field of the request, the new          *)
(* max_queue_size_bytes among them, and the queue keeps its old maximum.   *)
(***************************************************************************)
C25_ResizeFailed ==
    /\ rpLast.op = "UpdateReplication"
    /\ rpLast.qcalls = <<QueueCall("UpdateMaxQueueSize", rpLast.arg[1], FALSE)>>

C25_RowIsWrittenBeforeTheResize ==
    /\ C25_ResizeFailed =>
          /\ rpLast.err = QueueError("UpdateMaxQueueSize")
          /\ rpLast.out = Nil
          /\ rpLast.arg[1] \in ReplIDsOf(rpLast.rows)
          /\ LET row == ReplRow(rpRows, rpLast.arg[1])
                 old == ReplRow(rpLast.rows, rpLast.arg[1])
                 request == rpLast.arg[2]
             IN  /\ row.name = Updated(old.name, request.Name)
                 /\ row.description = Updated(old.description, request.Description)
                 /\ row.remote_id = Updated(old.remote_id, request.RemoteID)
                 /\ row.remote_bucket_id =
                        Updated(old.remote_bucket_id, request.RemoteBucketID)
                 /\ row.max_queue_size_bytes = request.MaxQueueSizeBytes[1]
          /\ rpQueues = rpLast.queues
    /\ rpLast.op = "UpdateReplication" /\ rpLast.arg[2].MaxQueueSizeBytes # Nil
          /\ rpLast.err \in {StoreError, errReplicationNotFound}
          => rpLast.qcalls = <<>> /\ rpRows = rpLast.rows

\* a failed resize after which the row says 20 and the queue still 10
C25_Witness ==
    /\ C25_ResizeFailed
    /\ ReplRow(rpRows, rpLast.arg[1]).max_queue_size_bytes = 20
    /\ [id |-> rpLast.arg[1], max |-> 10] \in rpQueues
    /\ ReplRow(rpRows, rpLast.arg[1]).name = "renamed"
    /\ ReplRow(rpRows, rpLast.arg[1]).description = "described"

(***************************************************************************)
(* C26: DeleteBucketReplications deletes every row of the local bucket and *)
(* then attempts DeleteQueue once for each deleted replication, going on   *)
(* with the remaining ones when an attempt fails; an ID string that does   *)
(* not parse is counted as a failure and the remaining IDs are still       *)
(* processed; and the call returns an error exactly when an ID did not     *)
(* parse or a DeleteQueue failed.                                          *)
(***************************************************************************)
C26_Parsing(deleted) == SelectSeq(deleted, LAMBDA str : str.parses)

C26_EveryDeletedQueueIsAttempted ==
    rpLast.op = "DeleteBucketReplications" /\ rpLast.err # StoreError =>
        LET deleted == rpLast.out[1]
            parsing == C26_Parsing(deleted)
        IN  /\ rpRows = SelectSeq(rpLast.rows,
                            LAMBDA row : row.local_bucket_id # rpLast.arg)
            /\ {str.ID : str \in Range(deleted)} =
                   {row.id : row \in {rpLast.rows[i] : i \in DOMAIN rpLast.rows}}
                   \ ReplIDsOf(rpRows)
            /\ ~rpLast.panic
            /\ Len(rpLast.qcalls) = Len(parsing)
            /\ \A i \in DOMAIN parsing :
                   /\ rpLast.qcalls[i].method = "DeleteQueue"
                   /\ rpLast.qcalls[i].id = parsing[i].ID
            /\ rpLast.err # NoError <=>
                   \/ \E i \in DOMAIN deleted : ~deleted[i].parses
                   \/ \E i \in DOMAIN rpLast.qcalls : ~rpLast.qcalls[i].ok

(***************************************************************************)
(* C22: every mutating operation of the two services holds the store       *)
(* mutex from before its statement until it returns, on every exit path,   *)
(* so no two of them are inside their critical sections at once; the       *)
(* operations that list, get or validate never take the mutex.             *)
(***************************************************************************)
C22_InCriticalSection(p) ==
    /\ lkOp[p] \in MutexOps \cup {"CreateReplication"}
    /\ lkPc[p] \in {"statement", "FindBucketByID", "insert"}

C22_MutationsHoldTheStoreMutex ==
    /\ \A p \in Callers : C22_InCriticalSection(p) <=> lkMu = p
    /\ \A p, q \in Callers :
           C22_InCriticalSection(p) /\ C22_InCriticalSection(q) => p = q
    /\ \A p \in Callers :
           lkOp[p] \in LockFreeOps => lkPc[p] = "statement" /\ lkMu # p

\* after a panic unlocked the mutex: one mutation inside its critical
\* section, another waiting for the mutex
C22_Witness ==
    /\ lkLast = "panic"
    /\ \E p, q \in Callers :
           /\ lkOp[p] = "DeleteBucketReplications" /\ lkPc[p] = "statement"
           /\ lkMu = p
           /\ lkOp[q] = "CreateRemoteConnection" /\ lkPc[q] = "Lock"

(***************************************************************************)
(* C23: CreateReplication takes the bucket service's read lock first and   *)
(* the store mutex second, holds both from before the bucket lookup until  *)
(* after the insert and releases both, the mutex first, on every return    *)
(* path; a bucket deletion, which needs the write lock, does not come      *)
(* between the lookup and the insert; and the callers never all wait for   *)
(* one another.                                                            *)
(***************************************************************************)
C23_CanStep(p) ==
    \/ lkPc[p] \in {"statement", "FindBucketByID", "insert", "RUnlock", "delete"}
    \/ lkPc[p] = "RLock" /\ CanRLock(lkWriter, lkPc)
    \/ lkPc[p] = "Lock" /\ lkMu = NoCaller
    \/ lkPc[p] = "WLock" /\ CanWLock(lkWriter, lkReaders)

C23_BucketLockThenStoreMutex ==
    /\ \A p \in Callers :
           lkOp[p] = "CreateReplication" =>
               /\ lkPc[p] = "RLock" => p \notin lkReaders /\ lkMu # p
               /\ lkPc[p] = "Lock" => p \in lkReaders /\ lkMu # p
               /\ lkPc[p] \in {"FindBucketByID", "insert"} =>
                      p \in lkReaders /\ lkMu = p
               /\ lkPc[p] = "RUnlock" => p \in lkReaders /\ lkMu # p
    /\ \A p \in Callers : lkPc[p] = "idle" => p \notin lkReaders /\ lkMu # p
    /\ \A p \in Callers : lkPc[p] = "insert" => lkBucket /\ lkWriter = NoCaller
    /\ (\E p \in Callers : lkPc[p] # "idle") => \E q \in Callers : C23_CanStep(q)

\* a create between its bucket lookup and its insert, a deletion of the
\* bucket waiting for the write lock
C23_Witness ==
    \E p, q \in Callers :
        /\ lkOp[p] = "CreateReplication" /\ lkPc[p] = "insert"
        /\ lkOp[q] = "DeleteBucket" /\ lkPc[q] = "WLock"
        /\ lkBucket
====
